---- MODULE Spec2Model ----
(***************************************************************************)
(* The command message lifecycle of marvin's atcommand module              *)
(* (src/marvin/modules/atcommand/atcommand.go).                            *)
(*                                                                         *)
(* Strings are sequences of symbols.  A symbol is one character, except    *)
(* that a literal the code only ever treats as a unit is one symbol:       *)
(*   "@"   the bot mention  <@BOTUSER>     (mentionRgx1, mentionRgx2)      *)
(*   "&"   the entity       &amp;          (rgxTakeCodeBlock)              *)
(*   "~"   the fence        (three backticks) (rgxCodeBlock)               *)
(*   "<!channel>", "<!everyone>", "<!here|@here>"  (SanitizeForChannel)    *)
(* and the fixed phrases of the bot's notices.                             *)
(***************************************************************************)
EXTENDS Integers, Sequences, FiniteSets, TLC

VARIABLES
    recentCommands, \* mod.recentCommands: message identity -> entry
    net,            \* requests the last handler made to the chat platform, in issue order
    dispatched,     \* calls the last handler made to team.DispatchCommand
    last,           \* the last handler run and its input event
    now,            \* time.Now(), in hours
    before,         \* the entry of the last run's message as it was before the run
    events,         \* the events delivered so far: the original posted, edits counted
    pin,            \* input of the function under test
    pout,           \* what the function returned for pin
    task,           \* where each handler goroutine stands
    lock,           \* FinishedCommandInfo.Lock of the message's entry: its holder, or ""
    enabled,        \* mod.enabled: the generation counter
    janitor,        \* the janitor goroutines started so far: epoch and position
    registered,     \* the handlers are registered with the team (Enable, not yet Disable)
    platform,       \* the bot's reactions present on the chat platform
    inflight,       \* the reaction requests issued on goroutines and not yet completed
    actor,          \* the membership worker: its map, its request channel, its callers
    locks           \* the tracker's map lock and entry locks, and who is where with them

\* no membership worker, no task at the tracker's locks
NoActor == <<>>
NoLocks == <<>>

\* the variables that the message handlers never touch
others == <<enabled, janitor, registered, platform, inflight, actor, locks>>
vars == <<recentCommands, net, dispatched, last, before, now, events, pin, pout, task, lock,
          others>>
\* NewAtCommandModule: the counter at zero, no goroutine started
InitRest ==
    /\ enabled = 0
    /\ janitor = <<>>
    /\ registered = FALSE
    /\ platform = {}
    /\ inflight = {}
    /\ actor = NoActor
    /\ locks = NoLocks

-----------------------------------------------------------------------------
(* Bounds of the model. *)

\* fenced code blocks in a parsed message
MaxBlocks == 2
\* largest N of a back-reference &N
MaxRef == 3
\* edit events delivered in one behaviour
MaxEdits == 1
\* hours the clock runs
MaxTime == 3

-----------------------------------------------------------------------------
(* strings *)

\* \s of the regular expressions, strings.TrimSpace
Ws == {" ", "\n"}
Digits == <<"0", "1", "2", "3", "4", "5", "6", "7", "8", "9">>
DigitSet == {Digits[i] : i \in 1..10}

HasPrefix(s, c) == Len(s) > 0 /\ s[1] = c
HasSuffix(s, c) == Len(s) > 0 /\ s[Len(s)] = c
Drop(s, n) == SubSeq(s, n + 1, Len(s))

\* strings.IndexByte(s, c), 1-based; 0 when absent
IndexByte(s, c) ==
    IF \E i \in 1..Len(s) : s[i] = c
    THEN CHOOSE i \in 1..Len(s) : s[i] = c /\ \A j \in 1..(i - 1) : s[j] # c
    ELSE 0

RECURSIVE TrimLeft(_, _)
\* strings.TrimLeft(s, cutset)
TrimLeft(s, cutset) ==
    IF Len(s) > 0 /\ s[1] \in cutset THEN TrimLeft(Tail(s), cutset) ELSE s

RECURSIVE TrimRight(_, _)
TrimRight(s, cutset) ==
    IF Len(s) > 0 /\ s[Len(s)] \in cutset
    THEN TrimRight(SubSeq(s, 1, Len(s) - 1), cutset) ELSE s

\* strings.TrimSpace
TrimSpace(s) == TrimRight(TrimLeft(s, Ws), Ws)

RECURSIVE Split(_, _)
\* strings.Split(s, sep) for a one-symbol separator: never empty, Split("") = [""]
Split(s, sep) ==
    LET i == IndexByte(s, sep)
    IN IF i = 0 THEN <<s>>
       ELSE <<SubSeq(s, 1, i - 1)>> \o Split(Drop(s, i), sep)

RECURSIVE Join(_, _)
\* strings.Join(a, sep)
Join(a, sep) ==
    IF Len(a) = 0 THEN <<>>
    ELSE IF Len(a) = 1 THEN a[1]
    ELSE a[1] \o sep \o Join(Tail(a), sep)

RECURSIVE Atoi(_, _)
\* strconv.Atoi of a string of digits (acc is the value read so far)
Atoi(s, acc) ==
    IF Len(s) = 0 THEN acc
    ELSE Atoi(Tail(s), 10 * acc + ((CHOOSE i \in 1..10 : Digits[i] = s[1]) - 1))

\* strconv.Itoa, for the numbers the model prints
Itoa(n) == IF n < 10 THEN <<Digits[n + 1]>> ELSE <<Digits[(n \div 10) + 1], Digits[(n % 10) + 1]>>

-----------------------------------------------------------------------------
(* the parser *)

RECURSIVE shellFold(_, _, _, _)
\* the loop of shellSplit over split, with its three locals
shellFold(split, result, inquote, block) ==
    IF Len(split) = 0 THEN result
    ELSE LET i == split[1]
             rest == Tail(split)
         IN IF inquote = ""
            THEN IF HasPrefix(i, "'") \/ HasPrefix(i, "\"")
                 THEN shellFold(rest, result, i[1], Tail(i) \o <<" ">>)
                 ELSE shellFold(rest, Append(result, i), inquote, block)
            ELSE IF ~HasSuffix(i, inquote)
                 THEN shellFold(rest, result, inquote, block \o i \o <<" ">>)
                 ELSE shellFold(rest,
                                Append(result, block \o SubSeq(i, 1, Len(i) - 1)),
                                "", <<>>)

\* shellSplit(s); a nil slice is the empty sequence (the code never builds an
\* empty slice that is not nil)
shellSplit(s) == shellFold(Split(s, " "), <<>>, "", <<>>)

\* (?m:^) before position i, (?m:$) after position j
LineStart(raw, i) == i = 1 \/ raw[i - 1] = "\n"
LineEnd(raw, j) == j = Len(raw) \/ raw[j + 1] = "\n"

\* newline, fence, (?m:$) match at position e
FenceCloses(raw, e) ==
    /\ e + 1 <= Len(raw)
    /\ raw[e] = "\n"
    /\ raw[e + 1] = "~"
    /\ LineEnd(raw, e + 1)

\* the first close at or after from, 0 when there is none: the (?sU:(.*)) is lazy
FirstClose(raw, from) ==
    IF \E e \in from..Len(raw) : FenceCloses(raw, e)
    THEN CHOOSE e \in from..Len(raw) :
            FenceCloses(raw, e) /\ \A f \in from..(e - 1) : ~FenceCloses(raw, f)
    ELSE 0

\* rgxCodeBlock at position s: [content, end], end = 0 when it does not match.
\* The greedy \n? is tried taken first, then skipped.
BlockAt(raw, s) ==
    IF ~(s <= Len(raw) /\ LineStart(raw, s) /\ raw[s] = "~")
    THEN [content |-> <<>>, end |-> 0]
    ELSE LET taken == IF s + 1 <= Len(raw) /\ raw[s + 1] = "\n"
                      THEN FirstClose(raw, s + 2) ELSE 0
             skipped == FirstClose(raw, s + 1)
         IN IF taken > 0
            THEN [content |-> SubSeq(raw, s + 2, taken - 1), end |-> taken + 1]
            ELSE IF skipped > 0
            THEN [content |-> SubSeq(raw, s + 1, skipped - 1), end |-> skipped + 1]
            ELSE [content |-> <<>>, end |-> 0]

RECURSIVE rgxCodeBlock(_, _)
\* rgxCodeBlock.FindAllStringSubmatch(raw, -1), searching from position from:
\* the first groups of the successive non-overlapping matches
rgxCodeBlock(raw, from) ==
    IF from > Len(raw) THEN <<>>
    ELSE LET b == BlockAt(raw, from)
         IN IF b.end > 0
            THEN <<b.content>> \o rgxCodeBlock(raw, b.end + 1)
            ELSE rgxCodeBlock(raw, from + 1)

\* rgxTakeCodeBlock.FindStringSubmatch(str): the digits, <<>> when no match
rgxTakeCodeBlock(str) ==
    IF /\ Len(str) >= 2
       /\ str[1] = "&"
       /\ \A i \in 2..Len(str) : str[i] \in DigitSet
    THEN Tail(str)
    ELSE <<>>

ErrIndexStart == <<"Code block indices start at &1">>
ErrNoBlock(ref, n) ==
    <<"Found code block ref '">> \o ref \o <<"' but only ">> \o Itoa(n)
        \o <<" code blocks in message">>

RECURSIVE ArgsLoop(_, _, _, _)
\* the loop of ParseArgs from index i on; a read of codeBlocks[which] with
\* which = len(codeBlocks) is an index-out-of-range panic
ArgsLoop(argSplit, i, codeBlocks, retErr) ==
    IF i > Len(argSplit) THEN [argSplit |-> argSplit, err |-> retErr, fault |-> FALSE]
    ELSE LET str == TrimSpace(argSplit[i])
             m == rgxTakeCodeBlock(str)
             which == Atoi(m, 0)
         IN IF m = <<>>
            THEN ArgsLoop([argSplit EXCEPT ![i] = str], i + 1, codeBlocks, retErr)
            ELSE IF which = 0
            THEN ArgsLoop(argSplit, i + 1, codeBlocks, ErrIndexStart)
            ELSE IF which - 1 > Len(codeBlocks)
            THEN ArgsLoop(argSplit, i + 1, codeBlocks, ErrNoBlock(m, Len(codeBlocks)))
            ELSE IF which - 1 = Len(codeBlocks)
            THEN [argSplit |-> argSplit, err |-> retErr, fault |-> TRUE]
            ELSE ArgsLoop([argSplit EXCEPT ![i] = codeBlocks[which]], i + 1,
                          codeBlocks, retErr)

\* ParseArgs(raw, startIdx); start = startIdx + 1 is the 1-based position.
\* err = <<>> is a nil error.
ParseArgs(raw, start) ==
    LET tail == Drop(raw, start - 1)
        nl == IndexByte(tail, "\n")
        endOfLine == IF nl = 0 THEN Len(tail) ELSE nl - 1
        cmdLine == SubSeq(tail, 1, endOfLine)
    IN ArgsLoop(shellSplit(TrimLeft(cmdLine, {" "})), 1, rgxCodeBlock(raw, 1), <<>>)

\* mentionRgx2 can match with its group 1 at position m
MentionAt(text, m) ==
    /\ text[m] = "@"
    /\ \E k \in 1..m : /\ \A i \in k..(m - 1) : text[i] \in Ws
                       /\ LineStart(text, k)
    /\ m + 1 <= Len(text)
    /\ text[m + 1] \in Ws

\* matches[2*2+1] + 1 of mentionRgx2.FindStringSubmatchIndex(text): the position
\* after the whitespace that follows the first matching mention; 0 when no match
mentionRgx2(text) ==
    IF \E m \in 1..Len(text) : MentionAt(text, m)
    THEN LET m == CHOOSE x \in 1..Len(text) :
                     MentionAt(text, x) /\ \A y \in 1..(x - 1) : ~MentionAt(text, y)
         IN Len(text) - Len(TrimLeft(Drop(text, m), Ws)) + 1
    ELSE 0

\* mentionRgx1.FindString(text) # ""
mentionRgx1(text) == \E i \in 1..Len(text) : text[i] = "@"

NoError == [msg |-> <<>>, stack |-> ""]

\* errors.Errorf keeps the call stack of where it ran, and reflect.DeepEqual
\* compares it: site is the caller of ParseMessage
MkError(msg, site) == IF msg = <<>> THEN NoError ELSE [msg |-> msg, stack |-> site]

\* the channels of the model: a public channel, the user's IM channel with the
\* bot (team.GetIM) and the log channel (TeamConfig().LogChannel)
PublicChannel == "C1"
imChannel == "D1"
logChannel == "C9"

\* rtm.ChannelID()[0] == 'D'
IsDirect(channelID) == channelID \in {"D1"}

\* the zero parseMessageReturn; fault marks a parse that ended in a panic
NoParse == [wave |-> FALSE, argSplit |-> <<>>, splitErr |-> NoError,
            lenientNoSuchCommand |-> FALSE, fault |-> FALSE]

\* the parseMessageReturn ParseMessage fills from what ParseArgs returned
parseMessageReturn(parsed, fullMsg, site) ==
    [wave |-> Len(parsed.argSplit) = 0, argSplit |-> parsed.argSplit,
     splitErr |-> MkError(parsed.err, site), lenientNoSuchCommand |-> fullMsg,
     fault |-> parsed.fault]

\* ParseMessage once mentionRgx2 has answered start (0: no match)
ParseMessageFrom(text, channelID, site, start) ==
    IF start = 0 /\ ~IsDirect(channelID)
    THEN [NoParse EXCEPT !.wave = mentionRgx1(text)]
    ELSE parseMessageReturn(ParseArgs(text, IF start = 0 THEN 1 ELSE start), start = 0, site)

\* ParseMessage(rtm), called from site
ParseMessage(text, channelID, site) ==
    ParseMessageFrom(text, channelID, site, mentionRgx2(text))

-----------------------------------------------------------------------------
(* results, reactions and sent messages *)

Codes == {"OK", "Failure", "Error", "NoSuchCommand", "PrintUsage", "PrintHelp"}

\* marvin.ReplyType as the set of its bits
ReplyTypeInvalid == {}
ReplyTypeInChannel == {"InChannel"}
ReplyTypePM == {"PM"}
ReplyTypeLog == {"Log"}
ReplyTypeShortProblem == {"InChannel", "Log"}
ReplyTypeDestinations == {"InChannel", "PM", "Log"}
ReplyTypeFlagOmitUsername == {"OmitUsername"}

\* the thresholds of marvin, in symbols
LongReplyThreshold == 3
LongReplyCut == 2
ShortReplyThreshold == 2

\* util.PreviewString(s, n)
PreviewString(s, n) == IF Len(s) > n THEN SubSeq(s, 1, n) ELSE s

NoErr == [text |-> <<>>, cause |-> <<>>]

\* the zero marvin.CommandResult
ZeroResult ==
    [Code |-> "", Message |-> <<>>, Err |-> NoErr, CanUndo |-> FALSE, CanEdit |-> 0,
     ReplyType |-> ReplyTypeInvalid, Args |-> <<>>]

\* marvin.CmdFailuref(args, format)
CmdFailuref(args, msg) == [ZeroResult EXCEPT !.Code = "Failure", !.Message = msg, !.Args = args]

MsgID(channel, ts) == [ChannelID |-> channel, MessageTS |-> ts]

\* the zero ReplyActionSentMessage
NoSentMessage == [MessageID |-> MsgID("", ""), Text |-> <<>>]

ReplyActionEmoji(messageID, emoji) == [MessageID |-> messageID, Emoji |-> emoji]

\* the values Load registers for the emoji keys
EmojiHi == "wave"

\* GetEmojiForResponse(result)
GetEmojiForResponse(result) ==
    CASE result.Code = "OK" -> "white_check_mark"
      [] result.Code = "Failure" -> "negative_squared_cross_mark"
      [] result.Code = "Error" -> "warning"
      [] result.Code = "NoSuchCommand" -> "question"
      [] result.Code = "PrintUsage" -> "confused"
      [] result.Code = "PrintHelp" -> "memo"
      [] OTHER -> "warning"

\* SanitizeLoose(msg)
SanitizeLoose(msg) == IF HasPrefix(msg, "/") THEN <<".">> \o msg ELSE msg

\* SanitizeForChannel(msg)
SanitizeForChannel(msg) ==
    SanitizeLoose([i \in 1..Len(msg) |->
        CASE msg[i] = "<!channel>" -> "@\\channel"
          [] msg[i] = "<!everyone>" -> "@\\everyone"
          [] msg[i] = "<!here|@here>" -> "@\\here"
          [] OTHER -> msg[i]])

\* source.ArchiveLink(), team.ArchiveURL(msgID)
ArchiveURL(msgID) == <<"archive:", msgID.ChannelID, msgID.MessageTS>>

-----------------------------------------------------------------------------
(* A handler run is threaded through a context: the entry it works on, the   *)
(* requests made so far, the dispatch calls made so far.                     *)

\* a request to the chat platform; async marks one issued on a goroutine of
\* its own, which completes at any later time, joined one that the handler
\* waits for before it returns
Request(api, channel, ts, text, emoji) ==
    [api |-> api, channel |-> channel, ts |-> ts, text |-> text, emoji |-> emoji,
     async |-> FALSE, joined |-> FALSE]

Emit(ctx, req) == [ctx EXCEPT !.net = Append(@, req)]

\* go f(...): the request f has just issued is issued on a goroutine
Go(ctx) == [ctx EXCEPT !.net[Len(ctx.net)].async = TRUE]

\* go func() { f(...); wg.Done() }() with wg.Wait() before the return
GoWait(ctx) == [Go(ctx) EXCEPT !.net[Len(ctx.net)].joined = TRUE]

\* the timestamp the platform gives the next message the bot posts
FreshTS(ctx) == ToString(ctx.step) \o "." \o ToString(Len(ctx.net))

\* team.SendMessage(channel, text): the request, with the timestamp returned
\* ("" with an error, when the channel is in ctx.down)
SendMessage(ctx, channel, text) ==
    Emit(ctx, Request("chat.postMessage", channel,
                      IF channel \in ctx.down THEN "" ELSE FreshTS(ctx), text, ""))
SentTS(ctx) == ctx.net[Len(ctx.net)].ts
SendFailed(ctx) == SentTS(ctx) = ""

\* team.ReactMessage(msgID, emoji)
ReactMessage(ctx, msgID, emoji) ==
    Emit(ctx, Request("reactions.add", msgID.ChannelID, msgID.MessageTS, <<>>, emoji))

\* ReplyActionEmoji.Undo
UndoEmoji(ctx, rae) ==
    Emit(ctx, Request("reactions.remove", rae.MessageID.ChannelID,
                      rae.MessageID.MessageTS, <<>>, rae.Emoji))

\* variant: the new text is posted as a new message in the reply's channel
UpdateByPost(ctx, rsm, newText) ==
    IF rsm.Text = <<>> THEN ctx ELSE SendMessage(ctx, rsm.MessageID.ChannelID, newText)

\* ReplyActionSentMessage.Update(mod, newText)
Update(ctx, rsm, newText) ==
    IF rsm.Text = <<>> THEN ctx
    ELSE Emit(ctx, Request("chat.update", rsm.MessageID.ChannelID,
                           rsm.MessageID.MessageTS, newText, ""))

\* FinishedCommandInfo.AddEmojiReaction
AddEmojiReaction(ctx, messageID, emoji) ==
    [ctx EXCEPT !.e.ActionEmoji = Append(@, ReplyActionEmoji(messageID, emoji))]

RECURSIVE EmitAll(_, _, _)
\* the requests of one loop of ChangeEmoji: op for every element of list that
\* has no match in other
EmitAll(ctx, list, other) ==
    IF Len(list) = 0 THEN ctx
    ELSE LET v == list[1]
             match == \E i \in 1..Len(other.list) : other.list[i] = v
             next == IF match THEN ctx
                     ELSE IF other.undo THEN Go(UndoEmoji(ctx, v))
                     ELSE Go(ReactMessage(ctx, v.MessageID, v.Emoji))
         IN EmitAll(next, Tail(list), other)

\* variant: the reactions of the old list are left on the message
ChangeEmojiAddOnly(ctx, new) ==
    [EmitAll(ctx, new, [list |-> ctx.e.ActionEmoji, undo |-> FALSE]) EXCEPT
        !.e.ActionEmoji = new]

\* FinishedCommandInfo.ChangeEmoji(mod, new)
ChangeEmoji(ctx, new) ==
    LET removed == EmitAll(ctx, ctx.e.ActionEmoji, [list |-> new, undo |-> TRUE])
        added == EmitAll(removed, new, [list |-> ctx.e.ActionEmoji, undo |-> FALSE])
    IN [added EXCEPT !.e.ActionEmoji = new]

-----------------------------------------------------------------------------
(* SendReplyMessages: the calls it makes to its four callbacks, in order *)

Call(cb, msg) == [cb |-> cb, msg |-> msg]

\* the reply type the result code stands for
DefaultReplyType(code) ==
    CASE code = "OK" -> ReplyTypeInChannel
      [] code = "Failure" -> ReplyTypeShortProblem
      [] code = "Error" -> ReplyTypeShortProblem
      [] code = "NoSuchCommand" -> ReplyTypePM
      [] code = "PrintUsage" -> ReplyTypePM
      [] code = "PrintHelp" -> ReplyTypeInChannel
      [] OTHER -> ReplyTypeShortProblem

If(c, calls) == IF c THEN calls ELSE <<>>

\* variant: the source channel is never taken as the primary destination
replyIMPrimaryNever(replyType, isChannelIMChannel) == FALSE

\* replyIMPrimary: the message came from the user's IM channel and the reply
\* goes to the channel or to the IM
replyIMPrimary(replyType, isChannelIMChannel) ==
    (("InChannel" \in replyType) \/ ("PM" \in replyType)) /\ isChannelIMChannel

\* variant: no message is long
LongReplyNever(message) == FALSE

\* len(result.Message) > marvin.LongReplyThreshold
LongReply(message) == Len(message) > LongReplyThreshold

\* SendReplyMessages(result, source, isChannelIMChannel, ...)
SendReplyMessages(result, source, isChannelIMChannel) ==
    LET replyType == IF result.ReplyType \cap ReplyTypeDestinations = ReplyTypeInvalid
                     THEN result.ReplyType \cup DefaultReplyType(result.Code)
                     ELSE result.ReplyType
        primary == replyIMPrimary(replyType, isChannelIMChannel)
        replyChannel == "InChannel" \in replyType /\ ~primary
        replyIM == "PM" \in replyType /\ ~primary
        replyLog == "Log" \in replyType
        long == LongReply(result.Message)
        withUser(m) == IF "OmitUsername" \in replyType THEN m
                       ELSE <<source.UserID, ": ">> \o m
        errMessage == IF result.Message = <<>> THEN <<"Error">> ELSE result.Message
        args == Join(result.Args, <<"] [">>)
    IN CASE result.Code = "Error" ->
              If(replyChannel,
                 <<Call("Channel", errMessage \o <<": ">>
                          \o PreviewString(result.Err.cause, ShortReplyThreshold))>>)
              \o (IF primary
                  THEN <<Call("IMLog", errMessage \o <<": ">> \o result.Err.text)>>
                  ELSE If(replyIM \/ (replyChannel /\ Len(result.Err.text) > ShortReplyThreshold),
                          <<Call("IMLog", errMessage \o <<": ">> \o result.Err.text
                                   \o <<"\n">> \o ArchiveURL(source.MsgID))>>))
              \o If(replyLog,
                    <<Call("Log", ArchiveURL(source.MsgID) \o <<"\n", "~", "\n">>
                             \o result.Err.text \o <<"\n", "~">>)>>)
         [] result.Code = "NoSuchCommand" ->
              If(replyIM \/ primary,
                 <<Call("IMLog", <<"I didn't quite understand that, sorry.\nYou said: [">>
                          \o args \o <<"]">>)>>)
              \o If(replyLog,
                    <<Call("Log", <<"No such command from ", source.UserID, "\nArgs: [">>
                             \o args \o <<"]\nLink: ">> \o ArchiveURL(source.MsgID))>>)
         [] result.Code \in {"PrintHelp", "PrintUsage"} ->
              If(replyChannel,
                 <<Call("Channel", IF long THEN PreviewString(result.Message, LongReplyCut)
                                   ELSE result.Message)>>)
              \o If(replyIM \/ (replyChannel /\ long) \/ primary,
                    <<Call("IM", result.Message)>>)
         [] OTHER ->
              IF result.Message = <<>> THEN <<>>
              ELSE If(replyChannel,
                      <<Call("Channel",
                             withUser(IF long
                                      THEN <<"[Reply truncated]\n">>
                                           \o PreviewString(result.Message, LongReplyCut)
                                           \o <<"...\n">>
                                      ELSE result.Message))>>)
                   \o If(primary, <<Call("IM", result.Message)>>)
                   \o If(replyIM \/ (replyChannel /\ long), <<Call("IM", result.Message)>>)
                   \o If(replyLog,
                         <<Call("Log", result.Message \o <<"\n">> \o ArchiveURL(source.MsgID))>>)

-----------------------------------------------------------------------------
(* the tracker entry and the handlers *)

NoRawMessage == [Subtype |-> "", ChannelID |-> "", MessageTS |-> "", UserID |-> "", Text |-> <<>>]
NoArgs == [Arguments |-> <<>>, IsEdit |-> FALSE, IsUndo |-> FALSE]

\* &FinishedCommandInfo{MyTimestamp: time.Now()} with OriginalMsg set
FinishedCommandInfo(rtm, t) ==
    [MyTimestamp |-> t, OriginalMsg |-> rtm, LatestEdit |-> NoRawMessage,
     parseResult |-> NoParse, FoundCommand |-> FALSE, CommandArgs |-> NoArgs,
     CommandResult |-> ZeroResult, WasUndone |-> FALSE, ActionEmoji |-> <<>>,
     ActionChanMsg |-> NoSentMessage, ActionPMMsg |-> NoSentMessage,
     ActionPMLogMsg |-> NoSentMessage, ActionLogMsg |-> NoSentMessage]

MessageID(rtm) == MsgID(rtm.ChannelID, rtm.MessageTS)

\* marvin.ActionSourceUserMessage{Msg: rtm}
ActionSource(rtm) == [UserID |-> rtm.UserID, ChannelID |-> rtm.ChannelID, MsgID |-> MessageID(rtm)]

\* the start of a handler run: step numbers the runs, down holds the channels
\* team.SendMessage fails for during the run
Context(e, step, down) ==
    [e |-> e, net |-> <<>>, disp |-> <<>>, step |-> step, down |-> down,
     didSendMessageChannel |-> FALSE, didSendMessageIM |-> FALSE]

\* team.DispatchCommand(args): the call is recorded, the collaborator answers r
DispatchCommand(ctx, args, previous) ==
    [ctx EXCEPT !.disp = Append(@, [Arguments |-> args.Arguments, IsEdit |-> args.IsEdit,
                                    IsUndo |-> args.IsUndo, PreviousResult |-> previous])]
Answer(r, args) == [r EXCEPT !.Args = args.Arguments]

\* the four callbacks ProcessInitialCommandMessage passes to SendReplyMessages
InitialCallback(ctx, call, rtm) ==
    LET channel == CASE call.cb = "Channel" -> rtm.ChannelID
                     [] call.cb = "Log" -> logChannel
                     [] OTHER -> imChannel
        text == IF call.cb \in {"Channel", "Log"}
                THEN SanitizeForChannel(call.msg) ELSE SanitizeLoose(call.msg)
        c == SendMessage(ctx, channel, text)
        sent == [MessageID |-> MsgID(channel, SentTS(c)), Text |-> call.msg]
    IN IF SendFailed(c) THEN c
       ELSE CASE call.cb = "Channel" -> [c EXCEPT !.e.ActionChanMsg = sent]
              [] call.cb = "IM" -> [c EXCEPT !.e.ActionPMMsg = sent]
              [] call.cb = "IMLog" -> [c EXCEPT !.e.ActionPMLogMsg = sent]
              [] call.cb = "Log" -> [c EXCEPT !.e.ActionLogMsg = sent]

\* the four callbacks EditCommand passes to SendReplyMessages
EditCallback(ctx, call, source) ==
    CASE call.cb = "Channel" ->
           LET c0 == [ctx EXCEPT !.didSendMessageChannel = TRUE]
               c == SendMessage(c0, source.ChannelID, SanitizeForChannel(call.msg))
           IN IF ctx.e.ActionChanMsg.Text # <<>>
              THEN Update(c0, ctx.e.ActionChanMsg, call.msg)
              ELSE [c EXCEPT !.e.ActionChanMsg =
                        [MessageID |-> MsgID(imChannel, SentTS(c)), Text |-> call.msg]]
      [] call.cb = "IM" ->
           LET c0 == [ctx EXCEPT !.didSendMessageIM = TRUE]
               c == SendMessage(c0, imChannel, SanitizeLoose(call.msg))
           IN IF ctx.e.ActionPMMsg.Text # <<>>
              THEN Update(c0, ctx.e.ActionPMMsg, call.msg)
              ELSE [c EXCEPT !.e.ActionPMMsg =
                        [MessageID |-> MsgID(imChannel, SentTS(c)), Text |-> call.msg]]
      [] call.cb = "IMLog" -> SendMessage(ctx, imChannel, SanitizeLoose(call.msg))
      [] call.cb = "Log" -> SendMessage(ctx, logChannel, SanitizeForChannel(call.msg))

RECURSIVE Callbacks(_, _, _, _)
\* SendReplyMessages running its calls against the callbacks of the initial
\* (initial = TRUE) or of the edit path
Callbacks(ctx, calls, initial, arg) ==
    IF Len(calls) = 0 THEN ctx
    ELSE Callbacks(IF initial THEN InitialCallback(ctx, calls[1], arg)
                   ELSE EditCallback(ctx, calls[1], arg),
                   Tail(calls), initial, arg)

\* ProcessInitialCommandMessage(fciResult, rtm); r is what the dispatch
\* collaborator answers when it is called
ProcessInitialCommandMessage(ctx, rtm, r) ==
    LET parseResult == ctx.e.parseResult
        source == ActionSource(ctx.e.OriginalMsg)
        args == [Arguments |-> parseResult.argSplit, IsEdit |-> FALSE, IsUndo |-> FALSE]
        c1 == [ctx EXCEPT !.e.CommandArgs = args]
        failed == parseResult.splitErr # NoError
        c2 == IF failed THEN c1
              ELSE DispatchCommand(c1, args, ZeroResult)
        result == IF failed THEN CmdFailuref(args.Arguments, parseResult.splitErr.msg)
                  ELSE Answer(r, args)
        c3 == [c2 EXCEPT !.e.CommandResult = result]
        reactEmoji == GetEmojiForResponse(result)
        c4 == AddEmojiReaction(GoWait(ReactMessage(c3, MessageID(rtm), reactEmoji)),
                               MessageID(rtm), reactEmoji)
    IN Callbacks(c4, SendReplyMessages(result, source, rtm.ChannelID = imChannel), TRUE, rtm)

\* the refusals of EditCommand and UndoCommand: a notice, then the "x" reaction
Refuse(ctx, channel, notice) ==
    LET orig == MessageID(ctx.e.OriginalMsg)
    IN AddEmojiReaction(ReactMessage(SendMessage(ctx, channel, notice), orig, "x"), orig, "x")

NoticeEditError(source) ==
    <<source.UserID, ": You may not edit a command that resulted in an error. Repeat the corrected command in a new message.">>
NoticeEditErrorIM(source) ==
    <<"For safety, you cannot edit a command that resulted in an error. ">> \o ArchiveURL(source.MsgID)
NoticeNoEdit(source) ==
    <<"That command does not support editing. ">> \o ArchiveURL(source.MsgID)
NoticeNoUndo(source) ==
    <<"That command does not support undo. ">> \o ArchiveURL(source.MsgID)
NoticeUndoError(source) ==
    <<"For safety, you cannot undo a command that resulted in an error. ">> \o ArchiveURL(source.MsgID)
NoticeForgotten(msgID) ==
    <<"Oops, I seem to have forgotten about that one. I can only cope with edits of recent messages. ">>
        \o ArchiveURL(msgID)
Removed == <<"(removed)">>

\* variant: a successful result may be edited under the default flag
EditPolicyAllowOK(prev) ==
    IF prev.CanEdit = 1 THEN "edit"
    ELSE IF prev.CanEdit = -1 THEN "forbidden"
    ELSE IF prev.Code = "Error" THEN "error" ELSE "edit"

\* what EditCommand decides from the previous result: "error", "forbidden" or "edit"
EditPolicy(prev) ==
    IF prev.CanEdit = 1 THEN "edit"
    ELSE IF prev.CanEdit = -1 THEN "forbidden"
    ELSE CASE prev.Code \in {"NoSuchCommand", "PrintUsage", "PrintHelp"} -> "edit"
           [] prev.Code = "Error" -> "error"
           [] prev.Code = "Failure" -> "edit"
           [] prev.Code = "OK" -> "forbidden"
           [] OTHER -> "edit"

\* the end of EditCommand: a recorded reply the edit did not send again is
\* marked removed and forgotten
RemoveStaleChan(ctx) ==
    IF ctx.e.ActionChanMsg.Text # <<>> /\ ~ctx.didSendMessageChannel
    THEN [Update(ctx, ctx.e.ActionChanMsg, Removed) EXCEPT !.e.ActionChanMsg = NoSentMessage]
    ELSE ctx
RemoveStalePM(ctx) ==
    IF ctx.e.ActionPMMsg.Text # <<>> /\ ~ctx.didSendMessageIM
    THEN [Update(ctx, ctx.e.ActionPMMsg, Removed) EXCEPT !.e.ActionPMMsg = NoSentMessage]
    ELSE ctx

\* EditCommand(fciMeta, source)
EditCommand(ctx, source, r) ==
    LET prev == ctx.e.CommandResult
        policy == EditPolicy(prev)
        orig == MessageID(ctx.e.OriginalMsg)
        args == [Arguments |-> ctx.e.parseResult.argSplit, IsEdit |-> TRUE, IsUndo |-> FALSE]
        result == Answer(r, args)
        c1 == DispatchCommand(ctx, args, prev)
        c2 == [c1 EXCEPT !.e.CommandResult = result, !.e.CommandArgs = args]
        c3 == ChangeEmoji(c2, <<ReplyActionEmoji(orig, GetEmojiForResponse(result)),
                                ReplyActionEmoji(orig, "fast_forward")>>)
        c4 == Callbacks(c3, SendReplyMessages(result, source, source.ChannelID = imChannel),
                        FALSE, source)
    IN CASE policy = "error" ->
              IF ctx.e.ActionChanMsg.Text # <<>>
              THEN Refuse(ctx, ctx.e.ActionChanMsg.MessageID.ChannelID, NoticeEditError(source))
              ELSE Refuse(ctx, imChannel, NoticeEditErrorIM(source))
         [] policy = "forbidden" -> Refuse(ctx, imChannel, NoticeNoEdit(source))
         [] OTHER -> RemoveStalePM(RemoveStaleChan(c4))

\* variant: an error result is retracted like a help result
UndoPolicyRetractError(res) ==
    CASE res.Code = "OK" -> IF res.CanUndo THEN "custom" ELSE "refuse"
      [] res.Code = "Failure" -> "custom"
      [] OTHER -> "retract"

\* variant: a help, usage or no-such-command result follows CanUndo like a success
UndoPolicyByFlag(res) ==
    CASE res.Code = "Error" -> "error"
      [] res.Code = "Failure" -> "custom"
      [] OTHER -> IF res.CanUndo THEN "custom" ELSE "refuse"

\* what UndoCommand decides from the stored result: "refuse", "error", "retract"
\* or "custom" (the code after the switch)
UndoPolicy(res) ==
    CASE res.Code = "OK" -> IF res.CanUndo THEN "custom" ELSE "refuse"
      [] res.Code = "Failure" -> "custom"
      [] res.Code = "Error" -> "error"
      [] res.Code \in {"NoSuchCommand", "PrintUsage", "PrintHelp"} -> "retract"
      [] OTHER -> "custom"

\* UndoCommand(fciMeta, source), up to its first unconditional return
UndoCommand(ctx, source) ==
    LET res == ctx.e.CommandResult
        policy == UndoPolicy(res)
        newEmoji == IF ctx.e.parseResult.wave
                    THEN <<ReplyActionEmoji(MessageID(ctx.e.OriginalMsg), EmojiHi)>>
                    ELSE <<>>
        refused(notice) == Refuse([ctx EXCEPT !.e.WasUndone = FALSE], imChannel, notice)
        r1 == Update(ctx, ctx.e.ActionChanMsg, Removed)
        r2 == Update(r1, ctx.e.ActionPMMsg, Removed)
        u1 == IF ~res.CanUndo THEN Update(ctx, ctx.e.ActionChanMsg, Removed) ELSE ctx
    IN CASE policy = "refuse" -> refused(NoticeNoUndo(source))
         [] policy = "error" -> refused(NoticeUndoError(source))
         [] policy = "retract" -> ChangeEmoji([r2 EXCEPT !.e.WasUndone = TRUE], newEmoji)
         [] OTHER -> ChangeEmoji(u1, newEmoji)

\* variant: a parse with a tokenization error is not a command
IsCommandNoError(parseResult) ==
    ~parseResult.wave /\ parseResult.argSplit # <<>> /\ parseResult.splitErr = NoError

\* parseResult.argSplit != nil || parseResult.splitErr != nil
IsCommand(parseResult) ==
    ~parseResult.wave /\ (parseResult.argSplit # <<>> \/ parseResult.splitErr # NoError)

\* variant: a comparison of identities, never true of a fresh parse
DeepEqualIdentity(a, b) == FALSE

\* variant: only the argument lists are compared
DeepEqualArgs(a, b) == a.argSplit = b.argSplit

\* reflect.DeepEqual(parseResult, fciMeta.parseResult)
DeepEqual(a, b) == a = b

\* the outcome of a handler run: the entry (tracked or not), the requests and
\* dispatch calls made, whether the run ended in a panic
Outcome(ctx, tracked, fault) ==
    [e |-> ctx.e, tracked |-> tracked, net |-> ctx.net, disp |-> ctx.disp, fault |-> fault]

\* HandleMessage(_rtm) at time t, once ParseMessage has returned parseResult
HandleMessageParsed(rtm, t, r, step, down, parseResult) ==
    LET ctx == Context(FinishedCommandInfo(rtm, t), step, down)
        c1 == [ctx EXCEPT !.e.parseResult = parseResult]
        hi == AddEmojiReaction(c1, MessageID(rtm), EmojiHi)
        cmd == [c1 EXCEPT !.e.FoundCommand = TRUE]
    IN IF parseResult.fault THEN Outcome(ctx, FALSE, TRUE)
       ELSE IF parseResult.wave
       THEN Outcome(ReactMessage(hi, MessageID(rtm), EmojiHi), TRUE, FALSE)
       ELSE IF IsCommand(parseResult)
       THEN Outcome(ProcessInitialCommandMessage(cmd, rtm, r), TRUE, FALSE)
       ELSE Outcome(c1, FALSE, FALSE)

\* HandleMessage(_rtm) at time t
HandleMessageRun(rtm, t, r, step, down) ==
    HandleMessageParsed(rtm, t, r, step, down,
                        ParseMessage(rtm.Text, rtm.ChannelID, "HandleMessage"))

\* variant: the notice is sent whatever the edited text parses to
HandleEditMissAlways(rtm, step, down, parseResult) ==
    LET ctx == Context(FinishedCommandInfo(NoRawMessage, 0), step, down)
    IN IF parseResult.fault THEN Outcome(ctx, FALSE, TRUE)
       ELSE Outcome(SendMessage(ctx, imChannel, NoticeForgotten(MessageID(rtm))), FALSE, FALSE)

\* HandleEdit(_rtm) when the message is not in recentCommands, once
\* ParseMessage has returned parseResult
HandleEditMissParsed(rtm, step, down, parseResult) ==
    LET ctx == Context(FinishedCommandInfo(NoRawMessage, 0), step, down)
    IN IF parseResult.fault THEN Outcome(ctx, FALSE, TRUE)
       ELSE IF parseResult.argSplit # <<>>
       THEN Outcome(SendMessage(ctx, imChannel, NoticeForgotten(MessageID(rtm))), FALSE, FALSE)
       ELSE Outcome(ctx, FALSE, FALSE)

\* HandleEdit(_rtm) when the message is not in recentCommands
HandleEditMiss(rtm, step, down) ==
    HandleEditMissParsed(rtm, step, down, ParseMessage(rtm.Text, rtm.ChannelID, "HandleEdit"))

\* HandleEdit(_rtm) on the entry fciMeta found in recentCommands, once
\* ParseMessage has returned parseResult
HandleEditParsed(fciMeta, rtm, r, step, down, parseResult) ==
    LET ctx == Context([fciMeta EXCEPT !.LatestEdit = rtm], step, down)
        myFoundCommand == IsCommand(parseResult)
        c1 == [ctx EXCEPT !.e.parseResult = parseResult]
        first == [ChangeEmoji(c1, <<>>) EXCEPT !.e.FoundCommand = TRUE, !.e.ActionEmoji = <<>>]
        undone == [UndoCommand(c1, ActionSource(rtm)) EXCEPT !.e.FoundCommand = FALSE]
    IN IF parseResult.fault THEN Outcome(ctx, TRUE, TRUE)
       ELSE IF DeepEqual(parseResult, fciMeta.parseResult) THEN Outcome(ctx, TRUE, FALSE)
       ELSE IF ~fciMeta.FoundCommand
       THEN IF myFoundCommand
            THEN Outcome(ProcessInitialCommandMessage(first, rtm, r), TRUE, FALSE)
            ELSE Outcome(c1, TRUE, FALSE)
       ELSE IF ~myFoundCommand THEN Outcome(undone, TRUE, FALSE)
       ELSE Outcome(EditCommand(c1, ActionSource(rtm), r), TRUE, FALSE)

\* HandleEdit(_rtm) on the entry fciMeta found in recentCommands
HandleEditRun(fciMeta, rtm, r, step, down) ==
    HandleEditParsed(fciMeta, rtm, r, step, down,
                     ParseMessage(rtm.Text, rtm.ChannelID, "HandleEdit"))

-----------------------------------------------------------------------------
(* The parser on its own: a message is drawn, ParseArgs and ParseMessage run. *)

BlockContents == <<"x", "y", "z", "w">>
RECURSIVE Fences(_, _)
\* blocks i..k, each on lines of its own
Fences(i, k) ==
    IF i > k THEN <<>>
    ELSE <<"\n", "~", "\n", BlockContents[i], "\n", "~">> \o Fences(i + 1, k)

Ref(n) == <<"&">> \o Itoa(n)
ParseTokens == {<<"a">>, <<"'", "b">>, <<"b", "'">>, <<>>} \cup {Ref(n) : n \in 0..MaxRef}
CmdLines == {<<>>} \cup {<<t>> : t \in ParseTokens}
              \cup {<<t1, t2>> : t1 \in ParseTokens, t2 \in ParseTokens}
Heads == {<<"@", " ">>, <<"@">>, <<>>, <<" ", "@", " ", " ">>}
\* head, then the tokens of the command line, then k code blocks
ParseInputs ==
    {[text |-> h \o Join(c, <<" ">>) \o Fences(1, k), channelID |-> ch, blocks |-> k,
      head |-> h, tokens |-> c] :
        h \in Heads, c \in CmdLines, k \in 0..MaxBlocks, ch \in {PublicChannel, imChannel}}

\* the handler goroutines of one message: of the original and of two edits
Tasks == {"M", "E1", "E2"}
NoTasks == [t \in Tasks |-> "undelivered"]
NoEvents == [posted |-> FALSE, edits |-> 0, evicted |-> 0]
Untracked == [tracked |-> FALSE, e |-> FinishedCommandInfo(NoRawMessage, 0)]
NoRun == [h |-> "none", rtm |-> NoRawMessage, fault |-> FALSE]

InitParse ==
    /\ pin \in ParseInputs
    /\ pout = [done |-> FALSE, msg |-> NoParse]
    /\ task = NoTasks
    /\ lock = ""
    /\ InitRest
    /\ recentCommands = <<>>
    /\ net = <<>>
    /\ dispatched = <<>>
    /\ last = NoRun
    /\ before = Untracked
    /\ now = 0
    /\ events = NoEvents

Parse ==
    /\ ~pout.done
    /\ pout' = [done |-> TRUE, msg |-> ParseMessage(pin.text, pin.channelID, "HandleMessage")]
    /\ UNCHANGED <<recentCommands, net, dispatched, last, before, now, events, pin, task, lock, others>>

SpecParse == InitParse /\ [][Parse]_vars

-----------------------------------------------------------------------------
(* The lifecycle of one message: it is posted once, in the public channel or *)
(* in the user's IM channel, and edit events for it follow.  Every handler   *)
(* runs to its end before the next starts.                                   *)

OrigTS == "1478.1"
User == "U1"
SourceChannels == {PublicChannel, imChannel}

\* the texts of the messages and of their edits
Chatter == <<"a">>
BareMention == <<"@">>
CommandA == <<"@", " ", "a">>
CommandB == <<"@", " ", "b">>
BadRef == <<"@", " ", "&", "0">>
PanicRef == <<"@", " ", "&", "1">>
OpenQuote == <<"'", "a">>
Texts == {Chatter, BareMention, CommandA, CommandB, BadRef, PanicRef, OpenQuote}

Hello == <<"h", "i">>
Boom == [text |-> <<"db: ", "boom">>, cause |-> <<"boom">>]

\* a result of the dispatch collaborator
Result(code, message, canEdit, canUndo, replyType) ==
    [Code |-> code, Message |-> message, Err |-> IF code = "Error" THEN Boom ELSE NoErr,
     CanUndo |-> canUndo, CanEdit |-> canEdit, ReplyType |-> replyType, Args |-> <<>>]

\* what the dispatch collaborator may answer: every code with every edit flag,
\* with undo opted in, and with an empty message
DispatchResults ==
    {Result(c, Hello, ed, FALSE, ReplyTypeInvalid) : c \in Codes, ed \in {-1, 0, 1}}
        \cup {Result(c, Hello, 0, TRUE, ReplyTypeInvalid) : c \in Codes}
        \cup {Result(c, <<>>, 0, FALSE, ReplyTypeInvalid) : c \in Codes}

\* the channels team.SendMessage may fail for during one handler run
Downs == {{}}

Put(map, key, value) == [k \in DOMAIN map \cup {key} |-> IF k = key THEN value ELSE map[k]]

RawMessage(subtype, channel, text) ==
    [Subtype |-> subtype, ChannelID |-> channel, MessageTS |-> OrigTS, UserID |-> User,
     Text |-> text]

Init ==
    /\ recentCommands = <<>>
    /\ net = <<>>
    /\ dispatched = <<>>
    /\ last = NoRun
    /\ now = 0
    /\ before = Untracked
    /\ events = NoEvents
    /\ pin = [text |-> <<>>, channelID |-> PublicChannel, blocks |-> 0, head |-> <<>>,
              tokens |-> <<>>]
    /\ pout = [done |-> TRUE, msg |-> NoParse]
    /\ task = NoTasks
    /\ lock = ""
    /\ InitRest

\* the answers of the dispatch collaborator that a run can tell apart: a run
\* that does not call it (probe is the run on some answer) never reads the answer
Answers(probe, results) ==
    IF probe.disp = <<>> THEN {CHOOSE r \in results : TRUE} ELSE results

\* the state after a handler run
Ran(h, rtm, out) ==
    /\ net' = out.net
    /\ dispatched' = out.disp
    /\ last' = [h |-> h, rtm |-> rtm, fault |-> out.fault]
    /\ before' = IF MessageID(rtm) \in DOMAIN recentCommands
                 THEN [tracked |-> TRUE, e |-> recentCommands[MessageID(rtm)]]
                 ELSE Untracked
    /\ recentCommands' = IF out.tracked
                         THEN Put(recentCommands, MessageID(rtm), out.e)
                         ELSE recentCommands

\* the original message is delivered: HandleMessage runs
HandleMessage(texts, results, downs) ==
    /\ ~events.posted
    /\ \E ch \in SourceChannels, t \in texts, d \in downs :
          LET rtm == RawMessage("", ch, t)
              Run(r) == HandleMessageRun(rtm, now, r, 0, d)
          IN \E r \in Answers(Run(CHOOSE x \in results : TRUE), results) : Ran("HandleMessage", rtm, Run(r))
    /\ events' = [events EXCEPT !.posted = TRUE]
    /\ UNCHANGED <<now, pin, pout, task, lock, others>>

Nothing == Outcome(Context(FinishedCommandInfo(NoRawMessage, 0), 0, {}), FALSE, FALSE)

\* a message_changed or message_deleted event is delivered: HandleEdit runs
HandleEdit(texts, results, downs) ==
    /\ events.edits < MaxEdits
    /\ \E ch \in SourceChannels, t \in texts \cup {<<>>}, d \in downs :
          LET rtm == RawMessage(IF t = <<>> THEN "message_deleted" ELSE "message_changed", ch, t)
              msgID == MessageID(rtm)
              step == events.edits + 1
              Run(r) == IF rtm.Subtype # "message_changed" THEN Nothing
                        ELSE IF msgID \notin DOMAIN recentCommands
                        THEN HandleEditMiss(rtm, step, d)
                        ELSE HandleEditRun(recentCommands[msgID], rtm, r, step, d)
          IN \E r \in Answers(Run(CHOOSE x \in results : TRUE), results) : Ran("HandleEdit", rtm, Run(r))
    /\ events' = [events EXCEPT !.edits = @ + 1]
    /\ UNCHANGED <<now, pin, pout, task, lock, others>>

Next == HandleMessage(Texts, DispatchResults, Downs) \/ HandleEdit(Texts, DispatchResults, Downs)

Spec == Init /\ [][Next]_vars

-----------------------------------------------------------------------------
(* The tracker over time: the clock runs and the janitor's sweep may run     *)
(* between any two handler runs.                                             *)

\* the retention window of _cleanRecentMessages, in hours
RetentionWindow == 2

\* what the dispatch collaborator answers here
TrackerResults ==
    {Result(c, Hello, 0, FALSE, ReplyTypeInvalid) : c \in {"OK", "NoSuchCommand"}}

\* an hour passes
Tick ==
    /\ now < MaxTime
    /\ now' = now + 1
    /\ UNCHANGED <<recentCommands, net, dispatched, last, before, events, pin, pout, task, lock, others>>

\* variant: the entries created at the threshold are taken too
ExpiredInclusive == {id \in DOMAIN recentCommands :
                        recentCommands[id].MyTimestamp <= now - RetentionWindow}

\* the entries with MyTimestamp.Before(threshold)
Expired == {id \in DOMAIN recentCommands :
               recentCommands[id].MyTimestamp < now - RetentionWindow}

\* _cleanRecentMessages()
CleanRecentMessages ==
    /\ recentCommands' = [k \in DOMAIN recentCommands \ Expired |-> recentCommands[k]]
    /\ net' = <<>>
    /\ dispatched' = <<>>
    /\ last' = [h |-> "_cleanRecentMessages", rtm |-> NoRawMessage, fault |-> FALSE]
    /\ before' = Untracked
    /\ events' = [events EXCEPT !.evicted = @ + Cardinality(Expired)]
    /\ UNCHANGED <<now, pin, pout, task, lock, others>>

NextTracker ==
    \/ HandleMessage(Texts, TrackerResults, Downs)
    \/ HandleEdit(Texts, TrackerResults, Downs)
    \/ Tick
    \/ CleanRecentMessages

SpecTracker == Init /\ [][NextTracker]_vars

-----------------------------------------------------------------------------
(* The vocabulary of the properties: the last handler run, the entry of its  *)
(* message before and after it, the requests it made.                        *)

MessageRan == last.h = "HandleMessage" /\ ~last.fault
EditRan == last.h = "HandleEdit" /\ last.rtm.Subtype = "message_changed" /\ ~last.fault
Tracked == MessageID(last.rtm) \in DOMAIN recentCommands
Entry == recentCommands[MessageID(last.rtm)]
Prev == before.e.CommandResult
MessageParse == ParseMessage(last.rtm.Text, last.rtm.ChannelID, "HandleMessage")
EditParse == ParseMessage(last.rtm.Text, last.rtm.ChannelID, "HandleEdit")
\* the parse carries arguments or a tokenization error
Addressed(p) == ~p.wave /\ (p.argSplit # <<>> \/ p.splitErr # NoError)

\* the edit of a tracked command still yields a command: EditCommand runs
EditCommandRan ==
    /\ EditRan /\ before.tracked /\ before.e.FoundCommand
    /\ Addressed(EditParse) /\ EditParse # before.e.parseResult
\* the edit of a tracked command yields no command: UndoCommand runs
UndoCommandRan ==
    EditRan /\ before.tracked /\ before.e.FoundCommand /\ ~Addressed(EditParse)

Posts(channel) ==
    {i \in 1..Len(net) : net[i].api = "chat.postMessage" /\ net[i].channel = channel}
AllPosts == {i \in 1..Len(net) : net[i].api = "chat.postMessage"}
Updates == {i \in 1..Len(net) : net[i].api = "chat.update"}
Reactions(api) ==
    {ReplyActionEmoji(MsgID(net[i].channel, net[i].ts), net[i].emoji) :
        i \in {j \in 1..Len(net) : net[j].api = api}}
Elems(seq) == {seq[i] : i \in 1..Len(seq)}
OneEditDispatch ==
    dispatched = <<[Arguments |-> EditParse.argSplit, IsEdit |-> TRUE, IsUndo |-> FALSE,
                    PreviousResult |-> Prev]>>
\* the refusal: a notice in the editor's IM channel, then the "x" reaction on
\* the original message, and nothing else
RefusedWith(notice) ==
    /\ Len(net) = 2
    /\ net[1].api = "chat.postMessage" /\ net[1].channel = imChannel /\ net[1].text = notice
    /\ net[2] = Request("reactions.add", last.rtm.ChannelID, OrigTS, <<>>, "x")
    /\ Entry.ActionEmoji = Append(before.e.ActionEmoji, ReplyActionEmoji(MessageID(last.rtm), "x"))
RepliesKept ==
    /\ Entry.ActionChanMsg = before.e.ActionChanMsg
    /\ Entry.ActionPMMsg = before.e.ActionPMMsg
    /\ Entry.ActionPMLogMsg = before.e.ActionPMLogMsg
    /\ Entry.ActionLogMsg = before.e.ActionLogMsg

-----------------------------------------------------------------------------
\* C1: an edit of a tracked message whose fresh parse equals the stored
\* parseResult makes no dispatch and no request, and leaves the entry as it
\* was but for LatestEdit.
C1_EditSameParse ==
    (EditRan /\ before.tracked /\ EditParse = before.e.parseResult)
        => /\ dispatched = <<>>
           /\ net = <<>>
           /\ Tracked
           /\ Entry = [before.e EXCEPT !.LatestEdit = last.rtm]
C1_Witness ==
    /\ EditRan /\ before.tracked /\ EditParse = before.e.parseResult
    /\ before.e.FoundCommand /\ before.e.ActionChanMsg.Text # <<>>

\* the scenario of C2: a public-channel command whose initial processing was
\* answered ok with a text, its channel reply recorded, edited to a command
\* with other arguments
C2_Scenario ==
    /\ EditCommandRan
    /\ last.rtm.ChannelID = PublicChannel
    /\ ~before.e.CommandArgs.IsEdit
    /\ Prev.Code = "OK" /\ Prev.Message # <<>>
    /\ before.e.ActionChanMsg.Text # <<>>
    /\ EditParse.splitErr = NoError
    /\ EditParse.argSplit # before.e.parseResult.argSplit
\* the recorded channel reply is updated in place to the attributed text of an
\* ok result, and nothing new is posted in the channel
C2_UpdatedInPlace ==
    (Entry.CommandResult.Code = "OK" /\ Entry.CommandResult.Message # <<>>)
        => /\ \E i \in Updates :
                net[i] = Request("chat.update", PublicChannel,
                                 before.e.ActionChanMsg.MessageID.MessageTS,
                                 <<User, ": ">> \o Entry.CommandResult.Message, "")
           /\ Posts(PublicChannel) = {}
\* C2 as stated: in the scenario the edit is dispatched again with IsEdit and
\* the channel reply is updated in place.
C2_AsStated == C2_Scenario => (OneEditDispatch /\ C2_UpdatedInPlace)
\* C2: in the scenario, when the previous result carries the forceAllow edit
\* flag, the edit is dispatched again with IsEdit and the previous result, and
\* the channel reply is updated in place.
C2_EditInPlace ==
    (C2_Scenario /\ Prev.CanEdit = 1) => (OneEditDispatch /\ C2_UpdatedInPlace)
C2_Witness ==
    /\ C2_Scenario /\ Prev.CanEdit = 1
    /\ Entry.CommandResult.Code = "OK" /\ Entry.CommandResult.Message # <<>>
    /\ Updates # {}

\* C3: under the default edit flag an edit that still yields a command is
\* dispatched again with IsEdit after no-such-command, usage, help or failure,
\* and refused after ok; forceForbid refuses after every code.  A refusal
\* makes no dispatch, keeps the stored result and sends a private notice.
C3_DefaultEditPolicy ==
    EditCommandRan =>
        /\ (Prev.CanEdit = 0
              /\ Prev.Code \in {"NoSuchCommand", "PrintUsage", "PrintHelp", "Failure"})
             => OneEditDispatch
        /\ ((Prev.CanEdit = 0 /\ Prev.Code = "OK") \/ Prev.CanEdit = -1)
             => /\ dispatched = <<>>
                /\ Entry.CommandResult = Prev
                /\ RefusedWith(NoticeNoEdit(ActionSource(last.rtm)))
C3_Witness ==
    /\ EditCommandRan /\ Prev.CanEdit = 0 /\ Prev.Code = "OK"
    /\ dispatched = <<>> /\ Posts(imChannel) # {}

\* C4: an edit of a command whose previous result is an error is never
\* dispatched, whatever the edit flag, and the editor gets a private notice.
C4_ErrorNeverEdited ==
    (EditCommandRan /\ Prev.Code = "Error")
        => (dispatched = <<>> /\ Posts(imChannel) # {} /\ Posts(PublicChannel) = {})

\* C5: the undo of an error result, or of an ok result without CanUndo, makes
\* no dispatch, updates no reply, keeps the recorded replies, leaves WasUndone
\* false, sends the private refusal and adds the "x" reaction.
C5_RefusedUndo ==
    (UndoCommandRan /\ (Prev.Code = "Error" \/ (Prev.Code = "OK" /\ ~Prev.CanUndo)))
        => /\ dispatched = <<>>
           /\ Updates = {}
           /\ RepliesKept
           /\ ~Entry.WasUndone
           /\ RefusedWith(IF Prev.Code = "Error"
                          THEN NoticeUndoError(ActionSource(last.rtm))
                          ELSE NoticeNoUndo(ActionSource(last.rtm)))
C5_Witness ==
    /\ UndoCommandRan /\ Prev.Code = "Error" /\ Prev.CanUndo
    /\ before.e.ActionChanMsg.Text # <<>>
    /\ Posts(imChannel) # {}

\* C6: the undo of a failure result without CanUndo leaves the channel reply
\* and the reactions alone and is refused like a success without CanUndo.
C6_FailureUndoRefused ==
    (UndoCommandRan /\ Prev.Code = "Failure" /\ ~Prev.CanUndo)
        => /\ Updates = {}
           /\ Reactions("reactions.remove") = {}
           /\ RefusedWith(NoticeNoUndo(ActionSource(last.rtm)))

\* the chat.update that marks a recorded reply removed; none for a reply that
\* was never sent
Retraction(rsm) ==
    IF rsm.Text = <<>> THEN <<>>
    ELSE <<Request("chat.update", rsm.MessageID.ChannelID, rsm.MessageID.MessageTS,
                   Removed, "")>>
\* the reactions the new intent stands for
IntentEmoji ==
    IF EditParse.wave THEN <<ReplyActionEmoji(MessageID(last.rtm), EmojiHi)>> ELSE <<>>

C8_Classification ==
    MessageRan =>
        /\ (~MessageParse.wave /\ ~Addressed(MessageParse))
             => (~Tracked /\ net = <<>> /\ dispatched = <<>>)
        /\ MessageParse.wave
             => /\ Tracked
                /\ net = <<Request("reactions.add", last.rtm.ChannelID, OrigTS, <<>>, EmojiHi)>>
                /\ dispatched = <<>>
        /\ Addressed(MessageParse)
             => /\ Tracked
                /\ Entry.FoundCommand
                /\ Entry.CommandArgs = [Arguments |-> MessageParse.argSplit,
                                        IsEdit |-> FALSE, IsUndo |-> FALSE]
                /\ IF MessageParse.splitErr = NoError
                   THEN dispatched = <<[Arguments |-> MessageParse.argSplit, IsEdit |-> FALSE,
                                        IsUndo |-> FALSE, PreviousResult |-> ZeroResult]>>
                   ELSE dispatched = <<>> /\ Entry.CommandResult.Code = "Failure"
C8_Witness ==
    /\ MessageRan /\ Addressed(MessageParse) /\ MessageParse.splitErr # NoError
    /\ Tracked /\ Entry.FoundCommand

\* the edit of a message that has no entry
EditMissed == last.h = "HandleEdit" /\ last.rtm.Subtype = "message_changed" /\ ~before.tracked
ForgottenNoticeSent ==
    /\ Len(net) = 1
    /\ net[1].api = "chat.postMessage" /\ net[1].channel = imChannel
    /\ net[1].text = NoticeForgotten(MessageID(last.rtm))
\* C9 as stated: every edit of a message that has no entry makes no dispatch
\* and no entry and sends the editor the private notice.
C9_AsStated ==
    (EditMissed /\ ~last.fault) => (dispatched = <<>> /\ ~Tracked /\ ForgottenNoticeSent)
\* C9: an edit of a message that has no entry makes no dispatch and no entry;
\* it sends the editor the private notice when the edited text parses to an
\* argument list, and nothing otherwise.
C9_TrackerMiss ==
    EditMissed =>
        /\ dispatched = <<>>
        /\ ~Tracked
        /\ IF ~last.fault /\ EditParse.argSplit # <<>> THEN ForgottenNoticeSent ELSE net = <<>>
C9_Witness ==
    /\ EditMissed /\ ~last.fault /\ events.evicted > 0
    /\ EditParse.argSplit # <<>> /\ ForgottenNoticeSent

\* the tokens of the drawn command line are plain words and references
PlainTokens ==
    /\ pin.head = <<"@", " ">>
    /\ \A i \in 1..Len(pin.tokens) :
          pin.tokens[i] = <<"a">> \/ \E n \in 0..MaxRef : pin.tokens[i] = Ref(n)
\* C10: with k code blocks, a token &N with 1 <= N <= k becomes the content
\* of block N, a token &N with N = 0 or N > k gives a returned error, and the
\* parse never ends in an out-of-range fault.
C10_BackReferences ==
    (pout.done /\ PlainTokens) =>
        /\ ~pout.msg.fault
        /\ \A i \in 1..Len(pin.tokens) : \A n \in 0..MaxRef :
              pin.tokens[i] = Ref(n) =>
                 IF 1 <= n /\ n <= pin.blocks
                 THEN pout.msg.argSplit[i] = <<BlockContents[n]>>
                 ELSE pout.msg.splitErr # NoError

\* the drawn command line opens a quote that no later token closes, and has
\* no code block reference
UnclosedQuote ==
    \E i \in 1..Len(pin.tokens) :
        /\ pin.tokens[i] = <<"'", "b">>
        /\ \A j \in 1..Len(pin.tokens) : j # i => pin.tokens[j] \in {<<"a">>, <<>>}
\* C11: in a direct channel a command line with an opening quote that is never
\* closed parses to a tokenization error, is not taken as a greeting, and
\* keeps every token that it does not report.
C11_UnclosedQuoteFails ==
    (pout.done /\ pin.channelID = imChannel /\ UnclosedQuote) =>
        /\ pout.msg.splitErr # NoError
        /\ ~pout.msg.wave

\* the drawn message is addressed and has nothing on its command line: a
\* mention followed by white space only, a bare mention, or (in a direct
\* channel) an empty text
EmptyCommandLine ==
    /\ pin.tokens = <<>> /\ pin.blocks = 0
    /\ pin.head # <<>> \/ pin.channelID = imChannel
\* C12: an addressed message with an empty command line, or a bare mention,
\* parses as greeting (wave) and never as a command with an argument list.
C12_EmptyIsGreeting ==
    (pout.done /\ EmptyCommandLine) => (pout.msg.wave /\ pout.msg.argSplit = <<>>)

\* the text the last run processed parses with a tokenization error and the
\* run acted on that parse
ErrorProcessed ==
    \/ MessageRan /\ MessageParse.splitErr # NoError
    \/ /\ EditRan /\ before.tracked
       /\ EditParse.splitErr # NoError /\ EditParse # before.e.parseResult
\* C13: when the processed text (the original message or an edit, on every
\* edit path) parses with a tokenization error, no dispatch call is made and
\* the stored result is a failure result carrying the error text.
C13_ErrorNeverDispatched ==
    ErrorProcessed =>
        /\ dispatched = <<>>
        /\ Tracked /\ Entry.CommandResult.Code = "Failure"

-----------------------------------------------------------------------------
(* the replies of a command whose message carries broadcast tokens or a
   leading slash, with sends that may fail *)

Broadcasts == {"<!channel>", "<!everyone>", "<!here|@here>"}
Shout == <<"<!channel>", "h">>
Slash == <<"/", "h">>
ReplyTexts == {CommandA, CommandB}
\* results that may be edited, answered in the channel (OK, PrintHelp) or
\* privately (PrintUsage)
ReplyResults ==
    {Result(c, m, 1, FALSE, ReplyTypeInvalid) :
        c \in {"OK", "PrintHelp", "PrintUsage"}, m \in {Hello, Shout, Slash}}
\* team.SendMessage may fail for the source channel or for the IM channel
ReplyDowns == {{}, {PublicChannel}, {imChannel}}

NextReplies ==
    \/ HandleMessage(ReplyTexts, ReplyResults, ReplyDowns)
    \/ HandleEdit(ReplyTexts, ReplyResults, ReplyDowns)

SpecReplies == Init /\ [][NextReplies]_vars

\* the bot's transmissions of text in the last run
Transmissions == {i \in 1..Len(net) : net[i].api \in {"chat.postMessage", "chat.update"}}
Neutralized(text) == \A k \in 1..Len(text) : text[k] \notin Broadcasts
\* C14: every text transmitted to a public channel (source or log channel),
\* as a new post or as an update in place, has its broadcast tokens
\* neutralized and a leading slash escaped; every text transmitted privately
\* has a leading slash escaped.
C14_SanitizedEverywhere ==
    \A i \in Transmissions :
        /\ ~HasPrefix(net[i].text, "/")
        /\ net[i].channel \in {PublicChannel, logChannel} => Neutralized(net[i].text)

-----------------------------------------------------------------------------
(* SendReplyMessages as a function of the result and of the source channel *)

Short3 == <<"a", "b", "c">>
Long4 == <<"a", "b", "c", "d">>
RouteMessages == {<<>>, Hello, Short3, Long4}
LongBoom == [text |-> <<"db: ", "boom", " at ", "x">>, cause |-> <<"boom", " at ", "x">>]
RouteReplyTypes == SUBSET (ReplyTypeDestinations \cup ReplyTypeFlagOmitUsername)
RouteResults ==
    {Result(c, m, 0, FALSE, rt) : c \in Codes, m \in RouteMessages, rt \in RouteReplyTypes}
        \cup {[Result("Error", m, 0, FALSE, rt) EXCEPT !.Err = LongBoom] :
                 m \in RouteMessages, rt \in RouteReplyTypes}
RouteInputs ==
    {[result |-> r, isChannelIMChannel |-> b] : r \in RouteResults, b \in BOOLEAN}

InitRoute ==
    /\ pin \in RouteInputs
    /\ pout = [done |-> FALSE, calls |-> <<>>]
    /\ task = NoTasks
    /\ lock = ""
    /\ InitRest
    /\ recentCommands = <<>>
    /\ net = <<>>
    /\ dispatched = <<>>
    /\ last = NoRun
    /\ before = Untracked
    /\ now = 0
    /\ events = NoEvents

RouteSource(isChannelIMChannel) ==
    ActionSource(RawMessage("", IF isChannelIMChannel THEN imChannel ELSE PublicChannel,
                            CommandA))

Route ==
    /\ ~pout.done
    /\ pout' = [done |-> TRUE,
                calls |-> SendReplyMessages(pin.result, RouteSource(pin.isChannelIMChannel),
                                            pin.isChannelIMChannel)]
    /\ UNCHANGED <<recentCommands, net, dispatched, last, before, now, events, pin, task, lock, others>>

SpecRoute == InitRoute /\ [][Route]_vars

\* the destination mask of the drawn result: its own bits, or those of its code
RouteMask ==
    IF pin.result.ReplyType \cap ReplyTypeDestinations = {}
    THEN pin.result.ReplyType \cup DefaultReplyType(pin.result.Code)
    ELSE pin.result.ReplyType
\* the texts passed to a callback, in call order
CallsTo(cbs) == SelectSeq(pout.calls, LAMBDA c : c.cb \in cbs)
\* part occurs in text
Carries(text, part) ==
    \E i \in 0..(Len(text) - Len(part)) : SubSeq(text, i + 1, i + Len(part)) = part
RoutedToChannel ==
    pout.done /\ "InChannel" \in RouteMask /\ ~pin.isChannelIMChannel
    /\ pin.result.Message # <<>>
\* the channel text is cut and the IM callback gets the whole message
TruncatedWithCopy ==
    /\ Len(CallsTo({"Channel"})) = 1
    /\ ~Carries(CallsTo({"Channel"})[1].msg, pin.result.Message)
    /\ Carries(CallsTo({"Channel"})[1].msg, PreviewString(pin.result.Message, LongReplyCut))
    /\ \E i \in 1..Len(CallsTo({"IM"})) : CallsTo({"IM"})[i].msg = pin.result.Message
\* a private copy is sent only when the mask asks for one
NoCopyByLength == CallsTo({"IM"}) # <<>> => "PM" \in RouteMask
\* C15 as stated: for every result routed to a public channel, a message
\* longer than the long-reply threshold is truncated in the channel and sent
\* whole privately.
C15_AsStated ==
    (RoutedToChannel /\ Len(pin.result.Message) > LongReplyThreshold) => TruncatedWithCopy
\* C15: for a result with code OK, Failure, PrintHelp or PrintUsage routed to
\* a public channel, a message longer than the long-reply threshold reaches
\* the channel callback truncated and the IM callback whole, whatever the
\* mask; a message at or below the threshold causes no private copy.
C15_LengthPolicy ==
    (RoutedToChannel /\ pin.result.Code \in {"OK", "Failure", "PrintHelp", "PrintUsage"}) =>
        IF Len(pin.result.Message) > LongReplyThreshold
        THEN TruncatedWithCopy
        ELSE NoCopyByLength
C15_Witness ==
    /\ RoutedToChannel /\ pin.result.Code = "PrintHelp"
    /\ Len(pin.result.Message) > LongReplyThreshold
    /\ "PM" \notin RouteMask
    /\ TruncatedWithCopy

\* the result came from the user's IM channel and goes to the channel or the IM
PrivateSource ==
    /\ pout.done /\ pin.isChannelIMChannel
    /\ "InChannel" \in RouteMask \/ "PM" \in RouteMask
\* C16: when the source is the user's IM channel and the mask includes the
\* channel or the IM, the channel callback is not called, at most one private
\* message is sent, and it carries no archive link, for every result code.
C16_PrivateCollapse ==
    PrivateSource =>
        /\ CallsTo({"Channel"}) = <<>>
        /\ Len(CallsTo({"IM", "IMLog"})) <= 1
        /\ \A i \in 1..Len(CallsTo({"IM", "IMLog"})) :
              ~Carries(CallsTo({"IM", "IMLog"})[i].msg,
                       ArchiveURL(RouteSource(TRUE).MsgID))
C16_Witness ==
    /\ PrivateSource /\ pin.result.Code = "Error"
    /\ {"InChannel", "PM"} \subseteq RouteMask
    /\ Len(pin.result.Err.text) > ShortReplyThreshold
    /\ Len(CallsTo({"IM", "IMLog"})) = 1

\* C17: every text passed to the channel callback, for every result code,
\* starts with the invoking user's mention unless the result sets the
\* omit-username flag.
C17_Attribution ==
    (pout.done /\ "OmitUsername" \notin pin.result.ReplyType) =>
        \A i \in 1..Len(CallsTo({"Channel"})) :
            HasPrefix(CallsTo({"Channel"})[i].msg, User)

\* the last run was a processing call for an entry of the public channel
ProcessedInChannel ==
    (MessageRan \/ EditRan) /\ Tracked /\ last.rtm.ChannelID = PublicChannel
\* C18: after a processing call, the entry's record of the channel reply holds
\* the channel and timestamp of the reply that was sent and its text, and a
\* failed send writes no record.
C18_LastSentRecorded ==
    ProcessedInChannel =>
        \A i \in Posts(PublicChannel) :
            IF SendFailed([net |-> SubSeq(net, 1, i)])
            THEN Entry.ActionChanMsg = before.e.ActionChanMsg
            ELSE /\ Entry.ActionChanMsg.MessageID = MsgID(PublicChannel, net[i].ts)
                 /\ SanitizeForChannel(Entry.ActionChanMsg.Text) = net[i].text

-----------------------------------------------------------------------------
(* the goroutines of one message and of two edits of it, step by step *)

Edits == {"E1", "E2"}
\* the texts: the original, its first edit, and the edit back
TextOf(t) == CASE t = "M" -> CommandA [] t = "E1" -> CommandB [] OTHER -> CommandA
EventOf(t) ==
    RawMessage(IF t = "M" THEN "" ELSE "message_changed", PublicChannel, TextOf(t))
StepOf(t) == CASE t = "M" -> 0 [] t = "E1" -> 1 [] OTHER -> 2
ConcID == MessageID(EventOf("M"))

\* the event feed delivers the original, then the edits in order, each to a
\* goroutine of its own
Deliver(t) ==
    /\ task[t] = "undelivered"
    /\ t = "E1" => task["M"] # "undelivered"
    /\ t = "E2" => task["E1"] # "undelivered"
    /\ task' = [task EXCEPT ![t] = IF t = "M" THEN "start" ELSE "asleep"]
    /\ UNCHANGED <<recentCommands, net, dispatched, last, before, now, events, pin, pout, lock, others>>

\* HandleMessage up to the insertion: the new entry, locked by its maker,
\* holding the parse
Insert ==
    /\ task["M"] = "start"
    /\ recentCommands' =
           Put(recentCommands, ConcID,
               [FinishedCommandInfo(EventOf("M"), now) EXCEPT
                   !.parseResult = ParseMessage(TextOf("M"), PublicChannel, "HandleMessage")])
    /\ lock' = "M"
    /\ task' = [task EXCEPT !["M"] = "inserted"]
    /\ UNCHANGED <<net, dispatched, last, before, now, events, pin, pout, others>>

\* HandleEdit after the sleep: the lookup under recentCommandsLock, and the
\* notice on a miss
Lookup(t) ==
    /\ task[t] = "asleep"
    /\ IF ConcID \in DOMAIN recentCommands
       THEN /\ task' = [task EXCEPT ![t] = "waiting"]
            /\ UNCHANGED <<recentCommands, net, dispatched, last, before>>
       ELSE /\ task' = [task EXCEPT ![t] = "missed"]
            /\ Ran("HandleEdit", EventOf(t), HandleEditMiss(EventOf(t), StepOf(t), {}))
    /\ UNCHANGED <<now, events, pin, pout, lock, others>>

\* variant: the edit goes on without the entry lock
AcquireAnyway(t) ==
    /\ task[t] = "waiting"
    /\ lock' = t
    /\ task' = [task EXCEPT ![t] = "locked"]
    /\ UNCHANGED <<recentCommands, net, dispatched, last, before, now, events, pin, pout, others>>

\* fciMeta.Lock.Lock() in HandleEdit
Acquire(t) ==
    /\ task[t] = "waiting"
    /\ lock = ""
    /\ lock' = t
    /\ task' = [task EXCEPT ![t] = "locked"]
    /\ UNCHANGED <<recentCommands, net, dispatched, last, before, now, events, pin, pout, others>>

\* what the dispatch collaborator may answer
ConcResults == {Result(c, Hello, 0, FALSE, ReplyTypeInvalid) : c \in {"OK", "Failure", "NoSuchCommand"}}

\* the run of the task's handler on the entry as it is, were r the answer
ConcRun(t, r) ==
    IF t = "M" THEN HandleMessageRun(EventOf(t), now, r, StepOf(t), {})
    ELSE HandleEditRun(recentCommands[ConcID], EventOf(t), r, StepOf(t), {})
Dispatches(t) == ConcRun(t, CHOOSE r \in ConcResults : TRUE).disp # <<>>

\* team.DispatchCommand is called and has not returned
Dispatch(t) ==
    /\ task[t] \in {"inserted", "locked"}
    /\ Dispatches(t)
    /\ task' = [task EXCEPT ![t] = "dispatching"]
    /\ UNCHANGED <<recentCommands, net, dispatched, last, before, now, events, pin, pout, lock, others>>

\* the rest of the handler, to its return and the deferred Unlock
Return(t) ==
    /\ \/ task[t] = "dispatching"
       \/ task[t] \in {"inserted", "locked"} /\ ~Dispatches(t)
    /\ \E r \in Answers(ConcRun(t, CHOOSE x \in ConcResults : TRUE), ConcResults) :
          Ran(IF t = "M" THEN "HandleMessage" ELSE "HandleEdit", EventOf(t), ConcRun(t, r))
    /\ lock' = ""
    /\ task' = [task EXCEPT ![t] = "done"]
    /\ UNCHANGED <<now, events, pin, pout, others>>

NextConc ==
    \/ \E t \in Tasks : Deliver(t)
    \/ Insert
    \/ \E t \in Edits : Lookup(t)
    \/ \E t \in Edits : Acquire(t)
    \/ \E t \in Tasks : Dispatch(t)
    \/ \E t \in Tasks : Return(t)

SpecConc == Init /\ [][NextConc]_vars

\* the task is processing the entry
Processing(t) == task[t] \in {"inserted", "locked", "dispatching"}
\* C19: for one entry at most one dispatch call is in progress, the
\* processing of two events never overlaps, and the task that processes holds
\* the entry lock: an edit that finds the entry during the initial processing
\* waits until it has finished.
C19_Serialized ==
    /\ Cardinality({t \in Tasks : task[t] = "dispatching"}) <= 1
    /\ Cardinality({t \in Tasks : Processing(t)}) <= 1
    /\ \A t \in Tasks : Processing(t) => lock = t
    /\ \A t \in Edits : (task[t] = "waiting" /\ Processing("M")) => lock = "M"
C19_Witness ==
    /\ task["M"] = "dispatching"
    /\ task["E1"] = "waiting" /\ task["E2"] = "waiting"
    /\ lock = "M"

\* C20: the edit delivered first is processed first, so that when both edits
\* are processed the entry holds the intent of the second; and no edit is
\* handled as a tracker miss while the original is being processed.
C20_DeliveryOrder ==
    /\ (task["E1"] = "done" /\ task["E2"] = "done") =>
          /\ recentCommands[ConcID].LatestEdit = EventOf("E2")
          /\ recentCommands[ConcID].parseResult =
                 ParseMessage(TextOf("E2"), PublicChannel, "HandleEdit")
    /\ \A t \in Edits : task[t] = "missed" => task["M"] = "done"

-----------------------------------------------------------------------------
\* the step is a run of _cleanRecentMessages
SweepStep ==
    /\ last'.h = "_cleanRecentMessages"
    /\ now' = now /\ events'.posted = events.posted /\ events'.edits = events.edits
\* C21: a sweep at time now removes exactly the entries created before now
\* minus the retention window and leaves the others as they are; no other
\* step removes an entry or changes an entry's creation time.
C21_Sweep ==
    [][IF SweepStep
       THEN /\ DOMAIN recentCommands' =
                  {id \in DOMAIN recentCommands :
                      recentCommands[id].MyTimestamp >= now - RetentionWindow}
            /\ \A id \in DOMAIN recentCommands' : recentCommands'[id] = recentCommands[id]
       ELSE \A id \in DOMAIN recentCommands :
               /\ id \in DOMAIN recentCommands'
               /\ recentCommands'[id].MyTimestamp = recentCommands[id].MyTimestamp]_vars
C21_Witness ==
    /\ last.h = "_cleanRecentMessages"
    /\ events.evicted > 0 /\ events.edits > 0
    /\ recentCommands = <<>>

-----------------------------------------------------------------------------
(* the module's life: Enable, Disable and the janitor goroutines *)

MaxCalls == 4

\* the lifecycle variables stay
Handlers == <<recentCommands, net, dispatched, last, before, now, events, pin, pout, task, lock,
              platform, inflight, actor, locks>>

\* Enable(t): the handlers are registered, the counter moves, a janitor
\* starts with the new value as its epoch
Enable ==
    /\ enabled < MaxCalls
    /\ registered' = TRUE
    /\ enabled' = enabled + 1
    /\ janitor' = Append(janitor, [epoch |-> enabled + 1, pc |-> "test", late |-> FALSE])
    /\ UNCHANGED Handlers

\* Disable(t)
Disable ==
    /\ enabled < MaxCalls
    /\ enabled' = enabled + 1
    /\ registered' = FALSE
    /\ UNCHANGED <<janitor, Handlers>>

\* variant: the janitor never leaves its loop
JanitorTestStay(j) ==
    /\ janitor[j].pc = "test"
    /\ janitor' = [janitor EXCEPT ![j].pc = "sleep"]
    /\ UNCHANGED <<enabled, registered, Handlers>>

\* janitorRecentMessages: the loop condition mod.enabled == epoch
JanitorTest(j) ==
    /\ janitor[j].pc = "test"
    /\ janitor' = [janitor EXCEPT ![j].pc = IF enabled = janitor[j].epoch
                                            THEN "sleep" ELSE "exited"]
    /\ UNCHANGED <<enabled, registered, Handlers>>

\* time.Sleep(30*time.Minute) returns; late tells whether the counter has
\* moved in the meantime
JanitorWake(j) ==
    /\ janitor[j].pc = "sleep"
    /\ janitor' = [janitor EXCEPT ![j].pc = "sweep",
                                  ![j].late = enabled # janitor[j].epoch]
    /\ UNCHANGED <<enabled, registered, Handlers>>

\* mod._cleanRecentMessages() in the loop
JanitorSweep(j) ==
    /\ janitor[j].pc = "sweep"
    /\ janitor' = [janitor EXCEPT ![j].pc = "test"]
    /\ UNCHANGED <<enabled, registered, Handlers>>

JanitorStep(j) ==
    /\ j \in DOMAIN janitor
    /\ JanitorTest(j) \/ JanitorWake(j) \/ JanitorSweep(j)

NextJanitor ==
    \/ Enable
    \/ Disable
    \/ \E j \in DOMAIN janitor : JanitorTest(j)
    \/ \E j \in DOMAIN janitor : JanitorWake(j)
    \/ \E j \in DOMAIN janitor : JanitorSweep(j)

SpecJanitor == Init /\ [][NextJanitor]_vars

\* every started goroutine keeps running: the scheduler is fair and the
\* sleep ends
SpecJanitorFair == SpecJanitor /\ \A j \in 1..MaxCalls : WF_vars(JanitorStep(j))

Alive(j) == j \in DOMAIN janitor /\ janitor[j].pc # "exited"
Superseded(j) == j \in DOMAIN janitor /\ janitor[j].epoch # enabled
\* C22: every janitor whose epoch is no longer the module's counter
\* eventually exits.
C22_StaleJanitorExits ==
    \A j \in 1..MaxCalls : Superseded(j) ~> (j \in DOMAIN janitor /\ janitor[j].pc = "exited")
C22_Witness ==
    /\ Len(janitor) >= 2
    /\ janitor[1].pc = "exited" /\ janitor[2].pc = "exited"
    /\ ~registered

\* C30: at most one janitor is alive at any time, and no janitor sweeps after
\* the module was disabled or its generation superseded.
C30_OneJanitor ==
    /\ Cardinality({j \in DOMAIN janitor : Alive(j)}) <= 1
    /\ \A j \in DOMAIN janitor : ~janitor[j].late

-----------------------------------------------------------------------------
(* ChangeEmoji as a function of the entry's list and of the new list *)

MaxEmoji == 2
EmojiPairs ==
    {ReplyActionEmoji(MsgID(PublicChannel, OrigTS), e) : e \in {EmojiHi, "x"}}
        \cup {ReplyActionEmoji(MsgID(imChannel, OrigTS), EmojiHi)}
EmojiLists == UNION {[1..n -> EmojiPairs] : n \in 0..MaxEmoji}

InitEmoji ==
    /\ pin \in [current : EmojiLists, new : EmojiLists]
    /\ pout = [done |-> FALSE, ActionEmoji |-> <<>>]
    /\ recentCommands = <<>>
    /\ net = <<>>
    /\ dispatched = <<>>
    /\ last = NoRun
    /\ before = Untracked
    /\ now = 0
    /\ events = NoEvents
    /\ task = NoTasks
    /\ lock = ""
    /\ InitRest

\* fci.ChangeEmoji(mod, new) on an entry whose ActionEmoji is pin.current
Change ==
    /\ ~pout.done
    /\ LET fci == [FinishedCommandInfo(NoRawMessage, 0) EXCEPT !.ActionEmoji = pin.current]
           out == ChangeEmoji(Context(fci, 0, {}), pin.new)
       IN /\ net' = out.net
          /\ pout' = [done |-> TRUE, ActionEmoji |-> out.e.ActionEmoji]
    /\ UNCHANGED <<recentCommands, dispatched, last, before, now, events, pin, task, lock, others>>

SpecEmoji == InitEmoji /\ [][Change]_vars

\* C24: ChangeEmoji requests the removal of exactly the pairs of the current
\* list that are not in the new list, the addition of exactly the pairs of
\* the new list that are not in the current one, nothing for a pair in both,
\* and leaves the new list as the entry's list.
C24_SymmetricDifference ==
    pout.done =>
        /\ Reactions("reactions.remove") = Elems(pin.current) \ Elems(pin.new)
        /\ Reactions("reactions.add") = Elems(pin.new) \ Elems(pin.current)
        /\ \A i \in 1..Len(net) : net[i].api \in {"reactions.remove", "reactions.add"}
        /\ pout.ActionEmoji = pin.new
C24_Witness ==
    /\ pout.done
    /\ Elems(pin.current) \ Elems(pin.new) # {}
    /\ Elems(pin.new) \ Elems(pin.current) # {}
    /\ Elems(pin.new) \cap Elems(pin.current) # {}
    /\ Len(net) = 2

-----------------------------------------------------------------------------
(* The reactions on the platform: a handler's own ReactMessage calls take    *)
(* effect as they are made, the ones ChangeEmoji starts on goroutines take   *)
(* effect at any later time, the one ProcessInitialCommandMessage waits for  *)
(* before the handler returns.                                               *)

\* the edits of one message that are followed here
MaxMirrorEdits == 2

MirrorTexts == {Chatter, BareMention, CommandA, CommandB}

\* what the dispatch collaborator answers here, under the default edit flag: ok
\* with and without undo opted in, failure and no-such-command without
MirrorResults ==
    {Result("OK", Hello, 0, TRUE, ReplyTypeInvalid)}
        \cup {Result(c, Hello, 0, FALSE, ReplyTypeInvalid) : c \in {"OK", "Failure", "NoSuchCommand"}}

IsReaction(req) == req.api \in {"reactions.add", "reactions.remove"}

\* the reaction a request adds or removes
Pair(req) == ReplyActionEmoji(MsgID(req.channel, req.ts), req.emoji)

\* the platform's reactions once req has completed
Complete(p, req) ==
    IF req.api = "reactions.add" THEN p \cup {Pair(req)}
    ELSE IF req.api = "reactions.remove" THEN p \ {Pair(req)}
    ELSE p

RECURSIVE Settle(_, _)
\* the platform's reactions after the calls of reqs the handler made itself
Settle(p, reqs) ==
    IF reqs = <<>> THEN p
    ELSE Settle(IF reqs[1].async THEN p ELSE Complete(p, reqs[1]), Tail(reqs))

\* the requests of run step that are left to goroutines
Issued(reqs, step) ==
    {[step |-> step, i |-> i, req |-> reqs[i]] : i \in {k \in 1..Len(reqs) : reqs[k].async}}

\* wg.Wait(): the handler has returned only when the goroutines it waits for are done
Returned == \A q \in inflight : ~q.req.joined

\* the state after a handler run, the platform included
RanMirror(h, rtm, out, step) ==
    /\ Ran(h, rtm, out)
    /\ platform' = Settle(platform, out.net)
    /\ inflight' = inflight \cup Issued(out.net, step)

Unmirrored == <<now, pin, pout, task, lock, enabled, janitor, registered, actor, locks>>

\* the original message is delivered: HandleMessage runs
MirrorMessage ==
    /\ ~events.posted
    /\ \E ch \in SourceChannels, t \in MirrorTexts, r \in MirrorResults :
          LET rtm == RawMessage("", ch, t)
          IN RanMirror("HandleMessage", rtm, HandleMessageRun(rtm, now, r, 0, {}), 0)
    /\ events' = [events EXCEPT !.posted = TRUE]
    /\ UNCHANGED Unmirrored

\* a message_changed event is delivered once the previous handler has returned
MirrorEdit ==
    /\ events.posted
    /\ events.edits < MaxMirrorEdits
    /\ Returned
    /\ \E id \in DOMAIN recentCommands, t \in MirrorTexts, r \in MirrorResults :
          LET rtm == RawMessage("message_changed", id.ChannelID, t)
              step == events.edits + 1
          IN RanMirror("HandleEdit", rtm, HandleEditRun(recentCommands[id], rtm, r, step, {}), step)
    /\ events' = [events EXCEPT !.edits = @ + 1]
    /\ UNCHANGED Unmirrored

\* a goroutine's request completes
Completion ==
    /\ \E q \in inflight :
          /\ platform' = Complete(platform, q.req)
          /\ inflight' = inflight \ {q}
    /\ UNCHANGED <<recentCommands, net, dispatched, last, before, events, Unmirrored>>

NextMirror == MirrorMessage \/ MirrorEdit \/ Completion

SpecMirror == Init /\ [][NextMirror]_vars

\* the reactions the entries say are on the platform
TrackedReactions == UNION {Elems(recentCommands[id].ActionEmoji) : id \in DOMAIN recentCommands}

\* C23: once every request issued for a tracked message has completed, the
\* reactions on the platform are the ones the entry tracks
C23_Mirror == (inflight = {} /\ recentCommands # <<>>) => platform = TrackedReactions

\* the stored result is an ok one with the default edit flag and without undo
SettledOK == before.tracked /\ Prev.Code = "OK" /\ Prev.CanEdit = 0 /\ ~Prev.CanUndo

\* C26: an edit of a message whose command was answered ok with the default
\* edit flag and without undo makes no dispatch and posts nothing in a public
\* channel, whatever edits came before it
C26_NoBypass == (EditRan /\ SettledOK) => (dispatched = <<>> /\ Posts(PublicChannel) = {})

\* the parse of the text the last run processed
LastParse == IF last.h = "HandleMessage" THEN MessageParse ELSE EditParse

\* C28: in every tracked entry FoundCommand is true exactly when the stored
\* parse is a command, and after a run that processed a text of a tracked
\* message the stored parse is the parse of that text
C28_EntryConsistent ==
    /\ \A id \in DOMAIN recentCommands :
          recentCommands[id].FoundCommand = Addressed(recentCommands[id].parseResult)
    /\ ((MessageRan \/ EditRan) /\ Tracked) => Entry.parseResult = LastParse
\* an ok command's removal was refused and the message then edited to a command again
C28_Witness ==
    /\ EditRan /\ SettledOK /\ Tracked /\ ~before.e.FoundCommand /\ Entry.FoundCommand
    /\ events.edits = 2

\* the greeting reaction on the message of the last run
Greeting == ReplyActionEmoji(MessageID(last.rtm), EmojiHi)

\* C29: after an edit of a tracked message has been processed, the entry
\* tracks the greeting reaction exactly when the stored parse is a greeting
C29_GreetingFollows ==
    (EditRan /\ before.tracked /\ Tracked)
        => (Greeting \in Elems(Entry.ActionEmoji) <=> Entry.parseResult.wave)
\* the half of C29 about a greeting edited into a message that is not one
C29_GreetingRemoved ==
    (EditRan /\ before.tracked /\ Tracked /\ before.e.parseResult.wave /\ ~Entry.parseResult.wave)
        => Greeting \notin Elems(Entry.ActionEmoji)
\* the half of C29 about a command edited into a greeting
C29_GreetingAdded ==
    (UndoCommandRan /\ Tracked /\ Entry.parseResult.wave) => Greeting \in Elems(Entry.ActionEmoji)

-----------------------------------------------------------------------------
(* The membership worker: callers send requests on membershipCh, the worker  *)
(* applies them to channelMembers one at a time.                             *)

\* the callers followed, and the requests membershipCh holds
MaxClients == 2
MaxQueue == 2

Clients == 1..MaxClients
NewChannel == "C2"
MemberChannels == {PublicChannel, NewChannel}

\* the client has an entry for PublicChannel and none for NewChannel; every
\* caller sets the membership of a channel and then asks for it
InitActor ==
    /\ actor = [channelMembers |-> (PublicChannel :> <<>>), membershipCh |-> <<>>,
                worker |-> "running", pc |-> [c \in Clients |-> "idle"],
                at |-> [c \in Clients |-> ""], got |-> [c \in Clients |-> FALSE],
                expect |-> [c \in Clients |-> FALSE], applied |-> {},
                latest |-> [ch \in MemberChannels |-> FALSE]]
    /\ locks = NoLocks
    /\ enabled = 0 /\ janitor = <<>> /\ registered = FALSE /\ platform = {} /\ inflight = {}
    /\ recentCommands = <<>> /\ net = <<>> /\ dispatched = <<>> /\ last = NoRun
    /\ before = Untracked /\ now = 0 /\ events = NoEvents /\ pin = <<>> /\ pout = <<>>
    /\ task = NoTasks /\ lock = ""

NotActor == <<recentCommands, net, dispatched, last, before, now, events, pin, pout, task, lock,
              enabled, janitor, registered, platform, inflight, locks>>

\* m[v][user]: the zero value when either map has no such key
userInChannelList(m, user, channel) ==
    IF channel \in DOMAIN m /\ user \in DOMAIN m[channel] THEN m[channel][user] ELSE FALSE

\* m[channel][user] = join: an assignment into the nil map of a channel without
\* an entry panics
userJoinChannel(m, user, channel, join) ==
    IF channel \in DOMAIN m
    THEN [fault |-> FALSE, m |-> Put(m, channel, Put(m[channel], user, join))]
    ELSE [fault |-> TRUE, m |-> m]

\* c.membershipCh <- membershipRequest{...}, then the return without a receive on ch
Membership(c, channel, join) ==
    /\ actor.pc[c] = "idle"
    /\ Len(actor.membershipCh) < MaxQueue
    /\ actor' = [actor EXCEPT !.membershipCh = Append(@, [F |-> "userJoinChannel", C |-> c,
                                                           channel |-> channel, join |-> join]),
                              !.pc[c] = "set", !.at[c] = channel, !.latest[channel] = join]
    /\ UNCHANGED NotActor

onUserJoinChannel(c) == \E channel \in MemberChannels : Membership(c, channel, TRUE)
onUserLeaveChannel(c) == \E channel \in MemberChannels : Membership(c, channel, FALSE)

\* UserInChannels(user, channel) up to the receive on ch
UserInChannels(c) ==
    /\ actor.pc[c] = "set"
    /\ Len(actor.membershipCh) < MaxQueue
    /\ actor' = [actor EXCEPT !.membershipCh = Append(@, [F |-> "userInChannelList", C |-> c,
                                                           channel |-> actor.at[c], join |-> FALSE]),
                              !.pc[c] = "waiting", !.expect[c] = actor.latest[actor.at[c]]]
    /\ UNCHANGED NotActor

\* one turn of membershipWorker's loop: req.C <- req.F(c.channelMembers)
membershipWorker ==
    /\ actor.worker = "running"
    /\ actor.membershipCh # <<>>
    /\ LET req == Head(actor.membershipCh)
           set == userJoinChannel(actor.channelMembers, User, req.channel, req.join)
       IN actor' = IF req.F = "userInChannelList"
                   THEN [actor EXCEPT !.membershipCh = Tail(@), !.pc[req.C] = "answered",
                                      !.got[req.C] = userInChannelList(actor.channelMembers, User,
                                                                       req.channel)]
                   ELSE IF set.fault
                   THEN [actor EXCEPT !.membershipCh = Tail(@), !.worker = "panicked"]
                   ELSE [actor EXCEPT !.membershipCh = Tail(@), !.channelMembers = set.m,
                                      !.applied = @ \cup {req.C}]
    /\ UNCHANGED NotActor

NextActor ==
    \/ \E c \in Clients : onUserJoinChannel(c) \/ onUserLeaveChannel(c) \/ UserInChannels(c)
    \/ membershipWorker

SpecActor == InitActor /\ [][NextActor]_vars

\* a caller is back from setting a membership only when its request has been applied
C25_Blocks ==
    \A c \in Clients : actor.pc[c] \in {"set", "waiting", "answered"} => c \in actor.applied
\* an answer carries the value of the last request to set that was sent before the question
C25_Observes == \A c \in Clients : actor.pc[c] = "answered" => actor.got[c] = actor.expect[c]
\* no request makes the worker panic
C25_Applied == actor.worker = "running"

\* C25: every request is applied by the worker in queue order, a caller is
\* back only when its request has been applied, and so a question asked after a
\* membership was set is answered with the value set, also for a channel that
\* had no entry
C25_Linearizable == C25_Blocks /\ C25_Observes /\ C25_Applied

-----------------------------------------------------------------------------
(* The two levels of locks: recentCommandsLock over the map, and the Lock of *)
(* every entry.  Handlers of two messages and the janitor's sweep interleave *)
(* statement by statement.                                                   *)

\* the sweeps followed
MaxSweeps == 2

Handles == {"M1", "M2"}
EditsOf == {"E1", "E2"}
LockTasks == Handles \cup EditsOf \cup {"J"}
\* the message a handler is delivered
MsgOf(t) == IF t = "M2" THEN 2 ELSE 1

InitLocks ==
    /\ locks = [map |-> "", entry |-> [m \in {1, 2} |-> ""], pc |-> [t \in LockTasks |-> "idle"],
                inMap |-> {}, sweeps |-> 0]
    /\ actor = NoActor
    /\ enabled = 0 /\ janitor = <<>> /\ registered = FALSE /\ platform = {} /\ inflight = {}
    /\ recentCommands = <<>> /\ net = <<>> /\ dispatched = <<>> /\ last = NoRun
    /\ before = Untracked /\ now = 0 /\ events = NoEvents /\ pin = <<>> /\ pout = <<>>
    /\ task = NoTasks /\ lock = ""

NotLocks == <<recentCommands, net, dispatched, last, before, now, events, pin, pout, task, lock,
              enabled, janitor, registered, platform, inflight, actor>>

\* task t moves from pc from to pc to
Goes(t, from, to) == locks.pc[t] = from /\ locks' = [locks EXCEPT !.pc[t] = to]

\* HandleMessage: fciResult.Lock.Lock() on the entry just made
MessageBegin(t) ==
    /\ t \in Handles /\ locks.pc[t] = "idle"
    /\ locks' = [locks EXCEPT !.pc[t] = "parse", !.entry[MsgOf(t)] = t]
    /\ UNCHANGED NotLocks

\* ParseMessage: a panic or a message that is not addressed ends the handler,
\* a greeting and a command go on to the insertion
MessageParsed(t) ==
    /\ t \in Handles
    /\ \E to \in {"exit", "insert"} : Goes(t, "parse", to)
    /\ UNCHANGED NotLocks

\* mod.recentCommandsLock.Lock() before the insertion
InsertLock(t) ==
    /\ locks.pc[t] = "insert" /\ locks.map = ""
    /\ locks' = [locks EXCEPT !.pc[t] = "inserting", !.map = t]
    /\ UNCHANGED NotLocks

\* mod.recentCommands[id] = fciResult; mod.recentCommandsLock.Unlock()
InsertUnlock(t) ==
    /\ locks.pc[t] = "inserting"
    /\ locks' = [locks EXCEPT !.pc[t] = "process", !.map = "", !.inMap = @ \cup {MsgOf(t)}]
    /\ UNCHANGED NotLocks

\* the reaction, or the dispatch and the replies: the calls return
Process(t) == Goes(t, "process", "exit") /\ UNCHANGED NotLocks

\* the deferred Lock.Unlock() of the entry
Exit(t) ==
    /\ locks.pc[t] = "exit"
    /\ locks' = [locks EXCEPT !.pc[t] = "done", !.entry[MsgOf(t)] = ""]
    /\ UNCHANGED NotLocks

\* HandleEdit: the sleep is over, mod.recentCommandsLock.Lock()
LookupLock(t) ==
    /\ t \in EditsOf /\ locks.pc[t] = "idle" /\ locks.map = ""
    /\ locks' = [locks EXCEPT !.pc[t] = "looking", !.map = t]
    /\ UNCHANGED NotLocks

\* variant: the map lock is kept while the entry lock is taken
LookupKeep(t) ==
    /\ locks.pc[t] = "looking"
    /\ locks' = [locks EXCEPT !.pc[t] = IF MsgOf(t) \in locks.inMap THEN "acquire" ELSE "miss"]
    /\ UNCHANGED NotLocks

\* fciMeta, ok := mod.recentCommands[msgID]; mod.recentCommandsLock.Unlock()
LookupUnlock(t) ==
    /\ locks.pc[t] = "looking"
    /\ locks' = [locks EXCEPT !.pc[t] = IF MsgOf(t) \in locks.inMap THEN "acquire" ELSE "miss",
                              !.map = ""]
    /\ UNCHANGED NotLocks

\* the message is not tracked: the parse, the notice, the return
Miss(t) == Goes(t, "miss", "done") /\ UNCHANGED NotLocks

\* fciMeta.Lock.Lock()
EntryLock(t) ==
    /\ locks.pc[t] = "acquire" /\ locks.entry[MsgOf(t)] = ""
    /\ locks' = [locks EXCEPT !.pc[t] = "edit", !.entry[MsgOf(t)] = t]
    /\ UNCHANGED NotLocks

\* ParseMessage in HandleEdit: a panic or an edit that changes nothing ends
\* the handler, the others go on to the undo or the dispatch
EditParsed(t) ==
    /\ t \in EditsOf
    /\ \E to \in {"exit", "process"} : Goes(t, "edit", to)
    /\ UNCHANGED NotLocks

\* _cleanRecentMessages: mod.recentCommandsLock.Lock()
SweepLock ==
    /\ locks.pc["J"] = "idle" /\ locks.map = "" /\ locks.sweeps < MaxSweeps
    /\ locks' = [locks EXCEPT !.pc["J"] = "sweeping", !.map = "J", !.sweeps = @ + 1]
    /\ UNCHANGED NotLocks

\* the expired entries are deleted; the deferred recentCommandsLock.Unlock()
SweepUnlock ==
    /\ locks.pc["J"] = "sweeping"
    /\ \E gone \in SUBSET locks.inMap :
          locks' = [locks EXCEPT !.pc["J"] = "idle", !.map = "", !.inMap = @ \ gone]
    /\ UNCHANGED NotLocks

\* what a task does once it has begun
LockStep(t) ==
    \/ MessageParsed(t) \/ InsertLock(t) \/ InsertUnlock(t) \/ Process(t) \/ Exit(t)
    \/ LookupUnlock(t) \/ Miss(t) \/ EntryLock(t) \/ EditParsed(t)
    \/ (t = "J" /\ SweepUnlock)

NextLocks ==
    \/ \E t \in LockTasks : MessageBegin(t) \/ LookupLock(t) \/ LockStep(t)
    \/ SweepLock

SpecLocks == InitLocks /\ [][NextLocks]_vars

\* every statement of a task that has begun is executed in the end: the
\* scheduler runs every goroutine, the collaborators' calls return
SpecLocksFair == SpecLocks /\ \A t \in LockTasks : WF_vars(LockStep(t))

\* a task is between its first lock and its return
Inside(t) == locks.pc[t] \notin {"idle", "done"}

\* the map lock is held only over the lookup, the insertion and the sweep, and
\* a handler that has returned holds no entry lock
LockLevels ==
    /\ locks.map # "" => locks.pc[locks.map] \in {"looking", "inserting", "sweeping"}
    /\ \A m \in {1, 2} : locks.entry[m] # "" => Inside(locks.entry[m])

\* C27: the map lock is never held while an entry lock is being taken or a
\* dispatch or send is in progress, every entry lock is released on every way
\* out, and every task that has begun comes to its end
C27_NoDeadlock == []LockLevels /\ \A t \in LockTasks : Inside(t) ~> ~Inside(t)
\* an edit waits for the entry lock that HandleMessage holds while the janitor
\* holds the map lock and the other message's handler waits for it
C27_Witness ==
    /\ locks.pc["E1"] = "acquire" /\ locks.entry[1] = "M1"
    /\ locks.map = "J" /\ locks.pc["M2"] = "insert"

====
